---- MODULE Spec2Model ----
(***************************************************************************)
(* Dates-LE: the date-recognition engine (format router, line scanners,    *)
(* overlap resolver and deduplicator).  Text is a sequence of one-         *)
(* character strings, a number too large for a machine integer is the      *)
(* sequence of its decimal digits.                                         *)
(***************************************************************************)
EXTENDS Integers, Sequences, FiniteSets, TLC

VARIABLES
  content,     \* the text of the open document
  typed,       \* how many pieces of text were typed into it
  languageId,  \* the language identifier of the document
  promise,     \* the promise of the last extractDates call
  result,      \* the ExtractionResult it resolved to
  invoked,     \* the format scanner the call ran, "none" if it ran none
  thrown,      \* the exception that scanner raised, if it raised one
  matches,     \* a list of matches handed to the deduplicator
  deduped,     \* what deduplicateDates returned for it
  dateValues,  \* a collection of DateValues handed to the analysis
  statistics,  \* what calculateDateStatistics returned for it
  anomalies,   \* what detectDateAnomalies returned for it
  patterns,    \* what detectDatePatterns returned for it
  clusters,    \* what clusterDates returned for it
  gaps,        \* what detectDateGaps returned for it
  scanner,     \* the module-level patterns and the scans made with them
  enhanced,    \* the EnhancedError createEnhancedError made last
  notification,\* what the last command showed to the user
  cache,       \* a cache made by createPerformanceCache
  service,     \* a service made by createPerformanceMonitoringService
  monitor,     \* the clock and a monitor made by createPerformanceMonitor
  validation   \* what validateDates returned last

vars ==
  <<content, typed, languageId, promise, result, invoked, thrown, matches,
    deduped, dateValues, statistics, anomalies, patterns, clusters, gaps,
    scanner, enhanced, notification, cache, service, monitor, validation>>

(* the variables of the document and its extraction, of the analysis, and  *)
(* of the other components                                                 *)
documentVars ==
  <<content, typed, languageId, promise, result, invoked, thrown, matches,
    deduped>>

analysisVars ==
  <<dateValues, statistics, anomalies, patterns, clusters, gaps>>

componentVars ==
  <<scanner, enhanced, notification, cache, service, monitor, validation>>

----------------------------------------------------------------------------
(* Characters and character classes of the regular expressions.            *)

Digits == {"0", "1", "2", "3", "4", "5", "6", "7", "8", "9"}

Letters ==
  {"a", "b", "c", "d", "e", "f", "g", "h", "i", "j", "k", "l", "m",
   "n", "o", "p", "q", "r", "s", "t", "u", "v", "w", "x", "y", "z",
   "A", "B", "C", "D", "E", "F", "G", "H", "I", "J", "K", "L", "M",
   "N", "O", "P", "Q", "R", "S", "T", "U", "V", "W", "X", "Y", "Z"}

Spaces == {" ", "\t", "\r"}

(* U+0060 cannot be written inside a string literal; it is named instead. *)
Backtick == "U+0060"

Quotes == {"'", "\"", Backtick}

NL == "\n"

(* A pattern is a sequence of elements.  Cls: a character class repeated   *)
(* lo..hi times, greedy; neg = TRUE is the complemented class [^...];      *)
(* cap = TRUE marks capture group 1.  Alt: a non-capturing group of        *)
(* alternatives tried left to right (an empty alternative makes it optional). *)
Cls(set, lo, hi) ==
  [k |-> "cls", set |-> set, neg |-> FALSE, lo |-> lo, hi |-> hi,
   open |-> FALSE, cap |-> FALSE]

(* the class repeated lo times or more: the quantifiers * and + *)
ClsFrom(set, lo) == [Cls(set, lo, lo) EXCEPT !.open = TRUE]

NotClsFrom(set, lo) == [ClsFrom(set, lo) EXCEPT !.neg = TRUE]

Cap(e) == [e EXCEPT !.cap = TRUE]

Alt(alts) == [k |-> "alt", alts |-> alts]

Ch(c) == Cls({c}, 1, 1)

(* a literal text: one set of admitted characters per position *)
LitOf(sets) == [k |-> "lit", text |-> sets]

D(n) == Cls(Digits, n, n)

NoCap == <<0, 0>>

NoMatch == [ok |-> FALSE, end |-> 0, cap |-> NoCap]

InCls(e, c) == IF e.neg THEN c \notin e.set ELSE c \in e.set

(* the number of characters of s from position i on (1-based) that are in  *)
(* the class of e, at most e.hi unless e is open                           *)
RunLen(e, s, i) ==
  LET left == Len(s) - i + 1
      lim  == IF ~e.open /\ e.hi < left THEN e.hi ELSE left
      out == {n \in 1..lim : ~InCls(e, s[i + n - 1])}
  IN  IF out = {} THEN (IF lim < 0 THEN 0 ELSE lim)
      ELSE (CHOOSE n \in out : \A m \in out : n <= m) - 1

(* the literal text e.text is at position i of s *)
LitAt(e, s, i) ==
  /\ i + Len(e.text) - 1 <= Len(s)
  /\ \A j \in 1..Len(e.text) : s[i + j - 1] \in e.text[j]

RECURSIVE MatchAt(_, _, _, _)
RECURSIVE TryAlt(_, _, _, _, _, _)

(* Backtracking match of pat against s from position i (1-based); end is   *)
(* the position after the match, cap the bounds <<from, to>> of group 1.   *)
(* A greedy repetition takes the longest run that lets the rest match.     *)
MatchAt(pat, s, i, cap) ==
  IF Len(pat) = 0
  THEN [ok |-> TRUE, end |-> i, cap |-> cap]
  ELSE LET e == Head(pat)
           rest == Tail(pat)
       IN  CASE e.k = "lit" ->
                  IF LitAt(e, s, i)
                  THEN MatchAt(rest, s, i + Len(e.text), cap)
                  ELSE NoMatch
             [] e.k = "cls" ->
                  LET Longest(good) ==
                        IF good = {} THEN NoMatch
                        ELSE (CHOOSE t \in good :
                                \A u \in good : u.n <= t.n).r
                  IN  Longest({t \in {[n |-> n,
                                       r |-> MatchAt(rest, s, i + n,
                                               IF e.cap THEN <<i, i + n - 1>>
                                               ELSE cap)] :
                                      n \in e.lo..RunLen(e, s, i)} :
                                t.r.ok})
             [] e.k = "alt" -> TryAlt(e.alts, rest, s, i, cap, 1)

TryAlt(alts, rest, s, i, cap, j) ==
  IF j > Len(alts)
  THEN NoMatch
  ELSE LET OrNext(r) ==
             IF r.ok THEN r ELSE TryAlt(alts, rest, s, i, cap, j + 1)
       IN  OrNext(MatchAt(alts[j] \o rest, s, i, cap))

(* RegExp.prototype.exec of a global pattern whose lastIndex is lastIndex: *)
(* the leftmost match at or after it.  index is 0-based like match.index,  *)
(* end is the lastIndex the pattern is left with.                          *)
Exec(pat, s, lastIndex) ==
  LET Found(t) ==
        [found |-> TRUE, index |-> t.i - 1, end |-> t.r.end - 1,
         cap |-> t.r.cap]
      Leftmost(good) ==
        IF good = {}
        THEN [found |-> FALSE, index |-> 0, end |-> 0, cap |-> NoCap]
        ELSE Found(CHOOSE u \in good : \A v \in good : u.i <= v.i)
  IN  Leftmost({t \in {[i |-> i, r |-> MatchAt(pat, s, i, NoCap)] :
                         i \in (lastIndex + 1)..Len(s)} :
                  t.r.ok})

RECURSIVE ExecAll(_, _, _)
(* while ((match = PATTERN.exec(line)) !== null): every match in turn,     *)
(* from lastIndex on; the failing exec resets lastIndex to 0.              *)
ExecAll(pat, s, lastIndex) ==
  LET Loop(m) == IF m.found THEN <<m>> \o ExecAll(pat, s, m.end) ELSE <<>>
  IN  Loop(Exec(pat, s, lastIndex))

----------------------------------------------------------------------------
(* Numbers beyond the machine integer: canonical decimal digit sequences.  *)

DigitVal ==
  [c \in Digits |->
     CASE c = "0" -> 0 [] c = "1" -> 1 [] c = "2" -> 2 [] c = "3" -> 3
       [] c = "4" -> 4 [] c = "5" -> 5 [] c = "6" -> 6 [] c = "7" -> 7
       [] c = "8" -> 8 [] c = "9" -> 9]

DigitChar == <<"0", "1", "2", "3", "4", "5", "6", "7", "8", "9">>

RECURSIVE StripZeros(_)
StripZeros(ds) ==
  IF Len(ds) > 1 /\ Head(ds) = "0" THEN StripZeros(Tail(ds)) ELSE ds

(* parseInt(text, 10) of a text made of digits only *)
parseInt(text) == StripZeros(text)

RECURSIVE LexLess(_, _)
LexLess(a, b) ==
  IF Len(a) = 0 THEN FALSE
  ELSE IF Head(a) # Head(b) THEN DigitVal[Head(a)] < DigitVal[Head(b)]
       ELSE LexLess(Tail(a), Tail(b))

(* a < b for canonical digit sequences *)
NumLess(a, b) == Len(a) < Len(b) \/ (Len(a) = Len(b) /\ LexLess(a, b))

(* n * 1000 *)
Times1000(n) == IF n = <<"0">> THEN n ELSE n \o <<"0", "0", "0">>

RECURSIVE ToDecimal(_)
(* the decimal text of a natural number, as a template literal prints it *)
ToDecimal(n) ==
  IF n < 10 THEN <<DigitChar[n + 1]>>
  ELSE ToDecimal(n \div 10) \o <<DigitChar[(n % 10) + 1]>>

SecondsMin == <<"1", "0", "0", "0", "0", "0", "0", "0", "0", "0">>

SecondsMax == <<"9", "9", "9", "9", "9", "9", "9", "9", "9", "9">>

MillisecondsMin ==
  <<"1", "0", "0", "0", "0", "0", "0", "0", "0", "0", "0", "0", "0">>

MillisecondsMax ==
  <<"9", "9", "9", "9", "9", "9", "9", "9", "9", "9", "9", "9", "9">>

----------------------------------------------------------------------------
(* String helpers.                                                         *)

RECURSIVE Split(_)
(* content.split('\n') *)
Split(text) ==
  IF \E i \in 1..Len(text) : text[i] = NL
  THEN LET i == CHOOSE j \in 1..Len(text) :
                  text[j] = NL /\ \A k \in 1..(j - 1) : text[k] # NL
       IN  <<SubSeq(text, 1, i - 1)>> \o Split(SubSeq(text, i + 1, Len(text)))
  ELSE <<text>>

RECURSIVE Join(_)
(* lines.join('\n') *)
Join(lines) ==
  IF Len(lines) = 0 THEN <<>>
  ELSE IF Len(lines) = 1 THEN lines[1]
       ELSE lines[1] \o <<NL>> \o Join(Tail(lines))

RECURSIVE TrimStart(_)
TrimStart(s) ==
  IF Len(s) > 0 /\ Head(s) \in Spaces THEN TrimStart(Tail(s)) ELSE s

RECURSIVE TrimEnd(_)
TrimEnd(s) ==
  IF Len(s) > 0 /\ s[Len(s)] \in Spaces
  THEN TrimEnd(SubSeq(s, 1, Len(s) - 1))
  ELSE s

(* line.trim() *)
Trim(s) == TrimEnd(TrimStart(s))

StartsWith(s, prefix) ==
  Len(s) >= Len(prefix) /\ SubSeq(s, 1, Len(prefix)) = prefix

(* a.includes(b) *)
Includes(a, b) ==
  \E i \in 1..(Len(a) - Len(b) + 1) : SubSeq(a, i, i + Len(b) - 1) = b

(* match[0] of a match m on line *)
Matched(line, m) == SubSeq(line, m.index + 1, m.end)

(* match[1] of a match m on line *)
Group1(line, m) == SubSeq(line, m.cap[1], m.cap[2])

----------------------------------------------------------------------------
(* The generic pattern library.  html.ts and javascript.ts declare their   *)
(* own copies of these six patterns, character for character the same.     *)

Time == <<D(2), Ch(":"), D(2), Ch(":"), D(2)>>

Sp == Cls(Spaces, 1, 1)

Sign == Cls({"+", "-"}, 1, 1)

(* /(\d{4}-\d{2}-\d{2}T\d{2}:\d{2}:\d{2}(?:\.\d{3})?(?:Z|[+-]\d{2}:\d{2})?)/g *)
ISO_PATTERN ==
  <<D(4), Ch("-"), D(2), Ch("-"), D(2), Ch("T")>> \o Time \o
  <<Alt(<< <<Ch("."), D(3)>>, <<>> >>),
    Alt(<< <<Ch("Z")>>, <<Sign, D(2), Ch(":"), D(2)>>, <<>> >>)>>

(* /([A-Za-z]{3},\s\d{2}\s[A-Za-z]{3}\s\d{4}\s\d{2}:\d{2}:\d{2}\s[A-Za-z]{3,4})/g *)
RFC2822_PATTERN ==
  <<Cls(Letters, 3, 3), Ch(","), Sp, D(2), Sp, Cls(Letters, 3, 3), Sp, D(4),
    Sp>> \o Time \o <<Sp, Cls(Letters, 3, 4)>>

UnixMinDigits == 10

UnixMaxDigits == 13

(* /(\d{10,13})/g *)
UNIX_PATTERN == <<Cls(Digits, UnixMinDigits, UnixMaxDigits)>>

(* /([A-Za-z]{3}\s[A-Za-z]{3}\s\d{2}\s\d{4}\s\d{2}:\d{2}:\d{2}\sGMT[+-]\d{4})/g *)
UTC_PATTERN ==
  <<Cls(Letters, 3, 3), Sp, Cls(Letters, 3, 3), Sp, D(2), Sp, D(4), Sp>> \o
  Time \o <<Sp, Ch("G"), Ch("M"), Ch("T"), Sign, D(4)>>

(* /(\d{1,2}\/\d{1,2}\/\d{4}\s\d{1,2}:\d{2}:\d{2})/g *)
LOCAL_PATTERN ==
  <<Cls(Digits, 1, 2), Ch("/"), Cls(Digits, 1, 2), Ch("/"), D(4), Sp,
    Cls(Digits, 1, 2), Ch(":"), D(2), Ch(":"), D(2)>>

(* /(\d{4}-\d{2}-\d{2})/g *)
SIMPLE_DATE_PATTERN == <<D(4), Ch("-"), D(2), Ch("-"), D(2)>>

----------------------------------------------------------------------------
(* Date.parse of the host platform: NaN for a text it cannot read, the     *)
(* instant otherwise.  The instant is kept symbolic (the text it was read  *)
(* from); only the Unix matcher computes a timestamp itself, which is the  *)
(* record [ms |-> epoch milliseconds].                                     *)

NaN == [nan |-> TRUE]

Whole(pat, text) ==
  LET ToEnd(r) == r.ok /\ r.end = Len(text) + 1
  IN  ToEnd(MatchAt(pat, text, 1, NoCap))

Num2(text, i) == 10 * DigitVal[text[i]] + DigitVal[text[i + 1]]

ValidYmd(text) == Num2(text, 6) \in 1..12 /\ Num2(text, 9) \in 1..31

ValidHms(text, i) ==
  Num2(text, i) <= 23 /\ Num2(text, i + 3) <= 59 /\ Num2(text, i + 6) <= 59

LOG_SHAPE ==
  <<D(4), Ch("-"), D(2), Ch("-"), D(2), Sp>> \o Time \o
  <<Alt(<< <<Ch("."), D(3)>>, <<>> >>)>>

DateParse(text) ==
  IF Whole(SIMPLE_DATE_PATTERN, text)
  THEN IF ValidYmd(text) THEN [instant |-> text] ELSE NaN
  ELSE IF Whole(ISO_PATTERN, text) \/ Whole(LOG_SHAPE, text)
       THEN IF ValidYmd(text) /\ ValidHms(text, 12)
            THEN [instant |-> text] ELSE NaN
       ELSE IF Whole(RFC2822_PATTERN, text) \/ Whole(UTC_PATTERN, text)
                 \/ Whole(LOCAL_PATTERN, text)
            THEN [instant |-> text]
            ELSE NaN

----------------------------------------------------------------------------
(* The generic line scanner (dateExtractor).                               *)

createDateValue(value, format, lineIndex, columnIndex, context) ==
  [value |-> value, format |-> format, timestamp |-> DateParse(value),
   position |-> [line |-> lineIndex + 1, column |-> columnIndex + 1],
   context |-> context]

RECURSIVE PushAll(_, _, _, _, _)
(* one dates.push(createDateValue(match[0], format, ...)) per match *)
PushAll(ms, format, line, lineIndex, dates) ==
  IF Len(ms) = 0 THEN dates
  ELSE PushAll(Tail(ms), format, line, lineIndex,
               Append(dates, createDateValue(Matched(line, Head(ms)), format,
                                             lineIndex, Head(ms).index,
                                             Trim(line))))

extractIsoDate(line, lineIndex, dates) ==
  PushAll(ExecAll(ISO_PATTERN, line, 0), "iso", line, lineIndex, dates)

extractRfc2822Date(line, lineIndex, dates) ==
  PushAll(ExecAll(RFC2822_PATTERN, line, 0), "rfc2822", line, lineIndex, dates)

(* isValidUnixTimestamp with <= and >= *)
isValidUnixTimestampBoundsInclusive(timestamp) ==
  LET isValidSeconds ==
        ~NumLess(timestamp, SecondsMin) /\ ~NumLess(SecondsMax, timestamp)
      isValidMilliseconds ==
        ~NumLess(timestamp, MillisecondsMin)
        /\ ~NumLess(MillisecondsMax, timestamp)
  IN  isValidSeconds \/ isValidMilliseconds

isValidUnixTimestamp(timestamp) ==
  LET isValidSeconds ==
        NumLess(SecondsMin, timestamp) /\ NumLess(timestamp, SecondsMax)
      isValidMilliseconds ==
        NumLess(MillisecondsMin, timestamp)
        /\ NumLess(timestamp, MillisecondsMax)
  IN  isValidSeconds \/ isValidMilliseconds

convertToMilliseconds(value, timestamp) ==
  IF Len(value) = 10 THEN Times1000(timestamp) ELSE timestamp

RECURSIVE PushUnix(_, _, _, _)
PushUnix(ms, line, lineIndex, dates) ==
  IF Len(ms) = 0 THEN dates
  ELSE LET text == Matched(line, Head(ms))
           timestamp == parseInt(text)
       IN  IF ~isValidUnixTimestamp(timestamp)
           THEN PushUnix(Tail(ms), line, lineIndex, dates)
           ELSE PushUnix(Tail(ms), line, lineIndex,
                  Append(dates,
                    [value |-> text, format |-> "unix",
                     timestamp |->
                       [ms |-> convertToMilliseconds(text, timestamp)],
                     position |-> [line |-> lineIndex + 1,
                                   column |-> Head(ms).index + 1],
                     context |-> Trim(line)]))

extractUnixTimestamp(line, lineIndex, dates) ==
  PushUnix(ExecAll(UNIX_PATTERN, line, 0), line, lineIndex, dates)

extractUtcDate(line, lineIndex, dates) ==
  PushAll(ExecAll(UTC_PATTERN, line, 0), "utc", line, lineIndex, dates)

extractLocalDate(line, lineIndex, dates) ==
  PushAll(ExecAll(LOCAL_PATTERN, line, 0), "local", line, lineIndex, dates)

extractSimpleDate(line, lineIndex, dates) ==
  PushAll(ExecAll(SIMPLE_DATE_PATTERN, line, 0), "simple", line, lineIndex,
          dates)

extractFromLine(line, lineIndex, dates) ==
  extractSimpleDate(line, lineIndex,
    extractLocalDate(line, lineIndex,
      extractUtcDate(line, lineIndex,
        extractUnixTimestamp(line, lineIndex,
          extractRfc2822Date(line, lineIndex,
            extractIsoDate(line, lineIndex, dates))))))

----------------------------------------------------------------------------
(* The overlap resolver and deduplicator.                                  *)

(* an absent position (the field is optional in DateValue) *)
NoPosition == [undefined |-> TRUE]

(* date.position?.line ?? 0 *)
LineOrZero(date) ==
  IF date.position = NoPosition THEN 0 ELSE date.position.line

hasMoreSpecificDate(dates, date) ==
  \E j \in 1..Len(dates) :
     /\ dates[j].format = "iso"
     /\ dates[j].position # NoPosition
     /\ dates[j].position.line = LineOrZero(date)
     /\ Includes(dates[j].value, date.value)

(* filterOverlappingDates without the comparison of the lines *)
filterOverlappingDatesAnyLine(dates) ==
  SelectSeq(dates,
    LAMBDA date :
      IF date.format # "simple" \/ date.position = NoPosition
      THEN TRUE
      ELSE ~\E j \in 1..Len(dates) :
               /\ dates[j].format = "iso"
               /\ dates[j].position # NoPosition
               /\ Includes(dates[j].value, date.value))

filterOverlappingDates(dates) ==
  SelectSeq(dates,
    LAMBDA date :
      IF date.format # "simple" \/ date.position = NoPosition
      THEN TRUE
      ELSE ~hasMoreSpecificDate(dates, date))

(* the key of the Map: value, a dash, the line number *)
DedupKey(date) == date.value \o <<"-">> \o ToDecimal(LineOrZero(date))

RECURSIVE MapSetAll(_, _)
(* uniqueMap.set(key, date) for every date in turn: a Map keeps a key at   *)
(* the place of its first insertion and replaces its value on a later set. *)
MapSetAll(map, dates) ==
  IF Len(dates) = 0 THEN map
  ELSE LET date == Head(dates)
           key  == DedupKey(date)
           next ==
             IF \E i \in 1..Len(map) : map[i].key = key
             THEN [i \in 1..Len(map) |->
                     IF map[i].key = key
                     THEN [key |-> key, val |-> date]
                     ELSE map[i]]
             ELSE Append(map, [key |-> key, val |-> date])
       IN  MapSetAll(next, Tail(dates))

RECURSIVE MapSetIfAbsent(_, _)
MapSetIfAbsent(map, dates) ==
  IF Len(dates) = 0 THEN map
  ELSE LET key == DedupKey(Head(dates))
       IN  MapSetIfAbsent(
             IF \E i \in 1..Len(map) : map[i].key = key THEN map
             ELSE Append(map, [key |-> key, val |-> Head(dates)]),
             Tail(dates))

(* deduplicateByValueAndLine keeping the first match of a key *)
deduplicateByValueAndLineKeepFirst(dates) ==
  LET Values(map) == [i \in 1..Len(map) |-> map[i].val]
  IN  Values(MapSetIfAbsent(<<>>, dates))

(* deduplicateByValueAndLine returning the entries last to first *)
deduplicateByValueAndLineReversed(dates) ==
  LET Values(map) == [i \in 1..Len(map) |-> map[Len(map) + 1 - i].val]
  IN  Values(MapSetAll(<<>>, dates))

deduplicateByValueAndLine(dates) ==
  LET Values(map) == [i \in 1..Len(map) |-> map[i].val]
  IN  Values(MapSetAll(<<>>, dates))

deduplicateDates(dates) ==
  deduplicateByValueAndLine(filterOverlappingDates(dates))

RECURSIVE ScanLines(_, _, _)
(* the loop of extractDatesFromLines from line k on (1-based); an empty    *)
(* line is skipped                                                         *)
ScanLines(lines, k, dates) ==
  IF k > Len(lines) THEN dates
  ELSE IF Len(lines[k]) = 0
       THEN ScanLines(lines, k + 1, dates)
       ELSE ScanLines(lines, k + 1, extractFromLine(lines[k], k - 1, dates))

extractDatesFromLines(text) ==
  deduplicateDates(ScanLines(Split(text), 1, <<>>))

(* lastIndex of a global pattern after an exec that left it unchanged on   *)
(* failure                                                                 *)
lastIndexLeftOnFailure(m, lastIndex) == IF m.found THEN m.end ELSE lastIndex

(* lastIndex of a global pattern after an exec from lastIndex gave m: the  *)
(* end of the match, 0 on failure                                          *)
lastIndexAfterExec(m, lastIndex) == IF m.found THEN m.end ELSE 0

RECURSIVE LoopEnd(_, _, _)
(* lastIndex of the pattern when the loop                                  *)
(* while ((match = PATTERN.exec(line)) !== null) is left                   *)
LoopEnd(pat, s, lastIndex) ==
  LET Step(m) ==
        IF m.found THEN LoopEnd(pat, s, lastIndexAfterExec(m, lastIndex))
        ELSE lastIndexAfterExec(m, lastIndex)
  IN  Step(Exec(pat, s, lastIndex))

(* extractFromLine, each pattern starting at its lastIndex *)
extractFromLineAt(line, lineIndex, dates, at) ==
  PushAll(ExecAll(SIMPLE_DATE_PATTERN, line, at.simple), "simple", line,
          lineIndex,
    PushAll(ExecAll(LOCAL_PATTERN, line, at.local), "local", line, lineIndex,
      PushAll(ExecAll(UTC_PATTERN, line, at.utc), "utc", line, lineIndex,
        PushUnix(ExecAll(UNIX_PATTERN, line, at.unix), line, lineIndex,
          PushAll(ExecAll(RFC2822_PATTERN, line, at.rfc2822), "rfc2822",
                  line, lineIndex,
            PushAll(ExecAll(ISO_PATTERN, line, at.iso), "iso", line,
                    lineIndex, dates))))))

(* lastIndex of the six patterns after extractFromLine *)
LastIndexAfterLine(line, at) ==
  [iso |-> LoopEnd(ISO_PATTERN, line, at.iso),
   rfc2822 |-> LoopEnd(RFC2822_PATTERN, line, at.rfc2822),
   unix |-> LoopEnd(UNIX_PATTERN, line, at.unix),
   utc |-> LoopEnd(UTC_PATTERN, line, at.utc),
   local |-> LoopEnd(LOCAL_PATTERN, line, at.local),
   simple |-> LoopEnd(SIMPLE_DATE_PATTERN, line, at.simple)]

RECURSIVE ScanLinesAt(_, _, _, _)
(* the loop of extractDatesFromLines from line k on, the patterns being    *)
(* left by earlier lines and earlier calls with lastIndex at               *)
ScanLinesAt(lines, k, dates, at) ==
  IF k > Len(lines) THEN [dates |-> dates, lastIndex |-> at]
  ELSE IF Len(lines[k]) = 0
       THEN ScanLinesAt(lines, k + 1, dates, at)
       ELSE ScanLinesAt(lines, k + 1,
                        extractFromLineAt(lines[k], k - 1, dates, at),
                        LastIndexAfterLine(lines[k], at))

(* extractDatesFromLines(content) with the patterns as they were left *)
extractDatesFromLinesAt(text, at) ==
  LET Done(r) ==
        [dates |-> deduplicateDates(r.dates), lastIndex |-> r.lastIndex]
  IN  Done(ScanLinesAt(Split(text), 1, <<>>, at))

----------------------------------------------------------------------------
(* The format scanners.                                                    *)

extractFromJson(text) == extractDatesFromLines(text)

extractFromYaml(text) == extractDatesFromLines(text)

extractFromCsv(text) == extractDatesFromLines(text)

XmlCommentOpener == <<"<", "!", "-", "-">>

filterXmlComments(text) ==
  Join(SelectSeq(Split(text),
                 LAMBDA line : ~StartsWith(Trim(line), XmlCommentOpener)))

extractFromXml(text) == extractDatesFromLines(filterXmlComments(text))

(* /(\d{4}-\d{2}-\d{2}\s\d{2}:\d{2}:\d{2}(?:\.\d{3})?)/g *)
LOG_PATTERN == LOG_SHAPE

(* /([A-Za-z]{3}\s+\d{1,2}\s\d{2}:\d{2}:\d{2})/g *)
SYSLOG_PATTERN ==
  <<Cls(Letters, 3, 3), ClsFrom(Spaces, 1), Cls(Digits, 1, 2), Sp>>
  \o Time

(* /(\[\d{2}\/[A-Za-z]{3}\/\d{4}:\d{2}:\d{2}:\d{2}\s[+-]\d{4}\])/g *)
APACHE_PATTERN ==
  <<Ch("["), D(2), Ch("/"), Cls(Letters, 3, 3), Ch("/"), D(4), Ch(":")>>
  \o Time \o <<Sp, Sign, D(4), Ch("]")>>

(* the object literal the format scanners push for a match m *)
Entry(line, lineIndex, m, value, format, timestamp) ==
  [value |-> value, format |-> format, timestamp |-> timestamp,
   position |-> [line |-> lineIndex + 1, column |-> m.index + 1],
   context |-> Trim(line)]

extractLogFormat(line, lineIndex, dates) ==
  LET Push(ms) ==
        dates \o [i \in 1..Len(ms) |->
                    Entry(line, lineIndex, ms[i], Matched(line, ms[i]), "iso",
                          DateParse(Matched(line, ms[i])))]
  IN  Push(ExecAll(LOG_PATTERN, line, 0))

MonthNames ==
  {<<"J", "a", "n">>, <<"F", "e", "b">>, <<"M", "a", "r">>, <<"A", "p", "r">>,
   <<"M", "a", "y">>, <<"J", "u", "n">>, <<"J", "u", "l">>, <<"A", "u", "g">>,
   <<"S", "e", "p">>, <<"O", "c", "t">>, <<"N", "o", "v">>, <<"D", "e", "c">>}

(* Date.parse of a syslog match followed by the current year: the host     *)
(* reads it when it begins with a month name                               *)
DateParseSyslog(text) ==
  IF SubSeq(text, 1, 3) \in MonthNames THEN [instant |-> text] ELSE NaN

extractSyslogFormat(line, lineIndex, dates) ==
  LET Push(ms) ==
        dates \o
        SelectSeq([i \in 1..Len(ms) |->
                     Entry(line, lineIndex, ms[i], Matched(line, ms[i]),
                           "custom", DateParseSyslog(Matched(line, ms[i])))],
                  LAMBDA d : d.timestamp # NaN)
  IN  Push(ExecAll(SYSLOG_PATTERN, line, 0))

extractApacheFormat(line, lineIndex, dates) ==
  LET Push(ms) ==
        dates \o [i \in 1..Len(ms) |->
                    Entry(line, lineIndex, ms[i], Matched(line, ms[i]),
                          "custom",
                          DateParse(SelectSeq(Matched(line, ms[i]),
                                              LAMBDA c : c \notin {"[", "]"})))]
  IN  Push(ExecAll(APACHE_PATTERN, line, 0))

RECURSIVE ScanLogLines(_, _, _)
ScanLogLines(lines, k, dates) ==
  IF k > Len(lines) THEN dates
  ELSE IF Len(lines[k]) = 0
       THEN ScanLogLines(lines, k + 1, dates)
       ELSE ScanLogLines(lines, k + 1,
              extractApacheFormat(lines[k], k - 1,
                extractSyslogFormat(lines[k], k - 1,
                  extractLogFormat(lines[k], k - 1, dates))))

extractLogSpecificDates(text) == ScanLogLines(Split(text), 1, <<>>)

extractFromLog(text) ==
  LET standardDates    == extractDatesFromLines(text)
      logSpecificDates == extractLogSpecificDates(text)
  IN  standardDates \o logSpecificDates

----------------------------------------------------------------------------
(* The HTML and JavaScript scanners.                                       *)

LowerCase ==
  <<"a", "b", "c", "d", "e", "f", "g", "h", "i", "j", "k", "l", "m",
    "n", "o", "p", "q", "r", "s", "t", "u", "v", "w", "x", "y", "z">>

UpperCase ==
  <<"A", "B", "C", "D", "E", "F", "G", "H", "I", "J", "K", "L", "M",
    "N", "O", "P", "Q", "R", "S", "T", "U", "V", "W", "X", "Y", "Z">>

(* the characters that match c under the i flag *)
CaseSet(c) ==
  {c} \cup {UpperCase[i] : i \in {j \in 1..26 : LowerCase[j] = c}}
      \cup {LowerCase[i] : i \in {j \in 1..26 : UpperCase[j] = c}}

(* a literal text, case-sensitive *)
Lit(chars) == <<LitOf([i \in 1..Len(chars) |-> {chars[i]}])>>

(* a literal text under the i flag *)
LitI(chars) == <<LitOf([i \in 1..Len(chars) |-> CaseSet(chars[i])])>>

SpStar == ClsFrom(Spaces, 0)

Quote == Cls(Quotes, 1, 1)

(* ['"`]([^'"`]+)['"`] *)
QuotedGroup == <<Quote, Cap(NotClsFrom(Quotes, 1)), Quote>>

NotGt == NotClsFrom({">"}, 0)

(* /datetime\s*=\s*['"`]([^'"`]+)['"`]/gi *)
DATETIME_ATTR_PATTERN ==
  LitI(<<"d", "a", "t", "e", "t", "i", "m", "e">>) \o
  <<SpStar, Ch("="), SpStar>> \o QuotedGroup

(* /<time[^>]*datetime\s*=\s*['"`]([^'"`]+)['"`][^>]*>/gi *)
TIME_TAG_PATTERN ==
  <<Ch("<")>> \o LitI(<<"t", "i", "m", "e">>) \o <<NotGt>> \o
  DATETIME_ATTR_PATTERN \o <<NotGt, Ch(">")>>

(* /<meta[^>]*(?:property|name)\s*=\s*['"`](?:date|published|modified|created)['"`][^>]*content\s*=\s*['"`]([^'"`]+)['"`][^>]*>/gi *)
META_DATE_PATTERN ==
  <<Ch("<")>> \o LitI(<<"m", "e", "t", "a">>) \o
  <<NotGt,
    Alt(<<LitI(<<"p", "r", "o", "p", "e", "r", "t", "y">>),
          LitI(<<"n", "a", "m", "e">>)>>),
    SpStar, Ch("="), SpStar, Quote,
    Alt(<<LitI(<<"d", "a", "t", "e">>),
          LitI(<<"p", "u", "b", "l", "i", "s", "h", "e", "d">>),
          LitI(<<"m", "o", "d", "i", "f", "i", "e", "d">>),
          LitI(<<"c", "r", "e", "a", "t", "e", "d">>)>>),
    Quote, NotGt>> \o
  LitI(<<"c", "o", "n", "t", "e", "n", "t">>) \o
  <<SpStar, Ch("="), SpStar>> \o QuotedGroup \o <<NotGt, Ch(">")>>

(* /"datePublished"\s*:\s*['"`]([^'"`]+)['"`]/gi *)
JSON_LD_PATTERN ==
  <<Ch("\"")>> \o
  LitI(<<"d", "a", "t", "e", "P", "u", "b", "l", "i", "s", "h", "e", "d">>)
  \o <<Ch("\""), SpStar, Ch(":"), SpStar>> \o QuotedGroup

(* /"dateModified"\s*:\s*['"`]([^'"`]+)['"`]/gi *)
JSON_LD_MODIFIED_PATTERN ==
  <<Ch("\"")>> \o
  LitI(<<"d", "a", "t", "e", "M", "o", "d", "i", "f", "i", "e", "d">>)
  \o <<Ch("\""), SpStar, Ch(":"), SpStar>> \o QuotedGroup

(* \s*\(\s*['"`]([^'"`]+)['"`]\s*\) *)
StringCall == <<SpStar, Ch("("), SpStar>> \o QuotedGroup \o <<SpStar, Ch(")")>>

(* /new\s+Date\s*\(\s*['"`]([^'"`]+)['"`]\s*\)/g *)
NEW_DATE_PATTERN ==
  Lit(<<"n", "e", "w">>) \o <<ClsFrom(Spaces, 1)>> \o
  Lit(<<"D", "a", "t", "e">>) \o StringCall

(* /Date\.parse\s*\(\s*['"`]([^'"`]+)['"`]\s*\)/g *)
DATE_PARSE_PATTERN ==
  Lit(<<"D", "a", "t", "e", ".", "p", "a", "r", "s", "e">>) \o StringCall

(* /moment\s*\(\s*['"`]([^'"`]+)['"`]\s*\)/g *)
MOMENT_PATTERN == Lit(<<"m", "o", "m", "e", "n", "t">>) \o StringCall

(* /dayjs\s*\(\s*['"`]([^'"`]+)['"`]\s*\)/g *)
DAYJS_PATTERN == Lit(<<"d", "a", "y", "j", "s">>) \o StringCall

(* /DateTime\.fromISO\s*\(\s*['"`]([^'"`]+)['"`]\s*\)/g *)
LUXON_PATTERN ==
  Lit(<<"D", "a", "t", "e", "T", "i", "m", "e", ".", "f", "r", "o", "m",
        "I", "S", "O">>) \o StringCall

(* a while loop of a markup or code-idiom matcher: the captured string is  *)
(* pushed as a custom date when Date.parse reads it                        *)
extractCaptured(pat, line, lineIndex, dates) ==
  LET Push(ms) ==
        dates \o
        SelectSeq([i \in 1..Len(ms) |->
                     Entry(line, lineIndex, ms[i], Group1(line, ms[i]),
                           "custom", DateParse(Group1(line, ms[i])))],
                  LAMBDA d : d.timestamp # NaN)
  IN  Push(ExecAll(pat, line, 0))

HtmlLine(line, lineIndex, dates) ==
  extractCaptured(JSON_LD_MODIFIED_PATTERN, line, lineIndex,
    extractCaptured(JSON_LD_PATTERN, line, lineIndex,
      extractCaptured(META_DATE_PATTERN, line, lineIndex,
        extractCaptured(TIME_TAG_PATTERN, line, lineIndex,
          extractCaptured(DATETIME_ATTR_PATTERN, line, lineIndex,
            extractFromLine(line, lineIndex, dates))))))

JavaScriptLine(line, lineIndex, dates) ==
  extractCaptured(LUXON_PATTERN, line, lineIndex,
    extractCaptured(DAYJS_PATTERN, line, lineIndex,
      extractCaptured(MOMENT_PATTERN, line, lineIndex,
        extractCaptured(DATE_PARSE_PATTERN, line, lineIndex,
          extractCaptured(NEW_DATE_PATTERN, line, lineIndex,
            extractFromLine(line, lineIndex, dates))))))

RECURSIVE ForEachHtmlLine(_, _, _)
ForEachHtmlLine(lines, k, dates) ==
  IF k > Len(lines) THEN dates
  ELSE ForEachHtmlLine(lines, k + 1, HtmlLine(lines[k], k - 1, dates))

RECURSIVE ForEachJavaScriptLine(_, _, _)
ForEachJavaScriptLine(lines, k, dates) ==
  IF k > Len(lines) THEN dates
  ELSE ForEachJavaScriptLine(lines, k + 1,
                             JavaScriptLine(lines[k], k - 1, dates))

extractFromHtml(text) == ForEachHtmlLine(Split(text), 1, <<>>)

extractFromJavaScript(text) == ForEachJavaScriptLine(Split(text), 1, <<>>)

----------------------------------------------------------------------------
(* The format router.                                                      *)

(* determineFileType falling back to the log scanner *)
determineFileTypeDefaultLog(id) ==
  CASE id = "json" -> "json"
    [] id \in {"yaml", "yml"} -> "yaml"
    [] id = "csv" -> "csv"
    [] id = "xml" -> "xml"
    [] id \in {"javascript", "typescript"} -> "javascript"
    [] id = "html" -> "html"
    [] OTHER -> "log"

determineFileType(id) ==
  CASE id = "json" -> "json"
    [] id \in {"yaml", "yml"} -> "yaml"
    [] id = "csv" -> "csv"
    [] id = "xml" -> "xml"
    [] id \in {"log", "plaintext"} -> "log"
    [] id \in {"javascript", "typescript"} -> "javascript"
    [] id = "html" -> "html"
    [] OTHER -> "unknown"

extractByFileType(text, fileType) ==
  CASE fileType = "json" -> extractFromJson(text)
    [] fileType \in {"yaml", "yml"} -> extractFromYaml(text)
    [] fileType = "csv" -> extractFromCsv(text)
    [] fileType = "xml" -> extractFromXml(text)
    [] fileType = "log" -> extractFromLog(text)
    [] fileType = "javascript" -> extractFromJavaScript(text)
    [] fileType = "html" -> extractFromHtml(text)
    [] OTHER -> <<>>

createEmptyResult == [success |-> TRUE, dates |-> <<>>, errors |-> <<>>]

createSuccessResult(dates) ==
  [success |-> TRUE, dates |-> dates, errors |-> <<>>]

(* what a scanner may raise: nothing, an Error, or a value that is not one *)
NoFault == [raised |-> FALSE, isError |-> FALSE, message |-> ""]

Faults ==
  {NoFault,
   [raised |-> TRUE, isError |-> TRUE, message |-> "boom"],
   [raised |-> TRUE, isError |-> FALSE, message |-> ""]}

createErrorResult(error) ==
  LET parseError ==
        [category |-> "parsing", severity |-> "warning",
         message |-> IF error.isError THEN error.message
                     ELSE "Unknown parsing error",
         recoverable |-> TRUE, recoveryAction |-> "skip"]
  IN  [success |-> FALSE, dates |-> <<>>, errors |-> <<parseError>>]

(* extractDates without its try/catch *)
extractDatesNoCatch(text, id, fault) ==
  LET fileType == determineFileType(id)
  IN  IF fileType = "unknown"
      THEN [promise |-> "fulfilled", result |-> createEmptyResult,
            invoked |-> "none", thrown |-> NoFault]
      ELSE IF fault.raised
           THEN [promise |-> "rejected", result |-> createEmptyResult,
                 invoked |-> fileType, thrown |-> fault]
           ELSE [promise |-> "fulfilled",
                 result |-> createSuccessResult(
                              extractByFileType(text, fileType)),
                 invoked |-> fileType, thrown |-> NoFault]

(* extractDates(content, languageId), the scanner raising fault if it is   *)
(* invoked and fault.raised                                                *)
extractDates(text, id, fault) ==
  LET fileType == determineFileType(id)
  IN  IF fileType = "unknown"
      THEN [promise |-> "fulfilled", result |-> createEmptyResult,
            invoked |-> "none", thrown |-> NoFault]
      ELSE IF fault.raised
           THEN [promise |-> "fulfilled", result |-> createErrorResult(fault),
                 invoked |-> fileType, thrown |-> fault]
           ELSE [promise |-> "fulfilled",
                 result |-> createSuccessResult(
                              extractByFileType(text, fileType)),
                 invoked |-> fileType, thrown |-> NoFault]

----------------------------------------------------------------------------
(* The analysis of a collection of DateValues.  Here a timestamp is absent *)
(* (NoTimestamp), NaN, a number no Date can hold (TooLarge: more than      *)
(* 8.64e15 in size, Infinity included) or [ms |-> n], n a whole number of  *)
(* epoch milliseconds; a Date is written as the timestamp it holds.  The   *)
(* instants are less than a month from the epoch, and zone is the whole    *)
(* number of hours the host's local time is ahead of UTC.                  *)

NoTimestamp == [undefined |-> TRUE]

TooLarge == [beyond |-> TRUE]

Null == [null |-> TRUE]

(* d.timestamp as a condition: undefined, NaN and 0 are falsy *)
Truthy(timestamp) == timestamp \notin {NoTimestamp, NaN, [ms |-> 0]}

(* new Date(timestamp).getTime() of a numeric timestamp *)
getTime(timestamp) == IF timestamp = TooLarge THEN NaN ELSE timestamp

(* d.timestamp && !Number.isNaN(new Date(d.timestamp).getTime()) *)
IsValidDate(d) == Truthy(d.timestamp) /\ getTime(d.timestamp) # NaN

(* the time values of the valid Dates of dates, in their order *)
ValidTimes(dates) ==
  LET Times(kept) == [i \in 1..Len(kept) |-> getTime(kept[i].timestamp).ms]
  IN  Times(SelectSeq(dates, IsValidDate))

RECURSIVE SortAscending(_)
(* [...a].sort((a, b) => a - b) *)
SortAscending(a) ==
  IF Len(a) <= 1 THEN a
  ELSE LET Insert(sorted, x) ==
             LET Place(k) ==
                   SubSeq(sorted, 1, k) \o <<x>>
                     \o SubSeq(sorted, k + 1, Len(sorted))
             IN  Place(Cardinality({i \in 1..Len(sorted) : sorted[i] <= x}))
       IN  Insert(SortAscending(SubSeq(a, 1, Len(a) - 1)), a[Len(a)])

RECURSIVE Sum(_)
Sum(a) == IF Len(a) = 0 THEN 0 ELSE Head(a) + Sum(Tail(a))

(* new Date(num / den): the time value is the quotient with its fraction   *)
(* dropped (den > 0)                                                       *)
NewDateOfQuotient(num, den) ==
  [ms |-> IF num >= 0 THEN num \div den ELSE -((-num) \div den)]

(* a Record<key, number> that counts the keys *)
Histogram(keys) ==
  [k \in {keys[i] : i \in 1..Len(keys)} |->
     Cardinality({i \in 1..Len(keys) : keys[i] = k})]

MsPerHour == 60 * 60 * 1000

Zones == {-1, 0, 1}

LocalTime(time, zone) == time + zone * MsPerHour

getTimezoneOffset(zone) == -60 * zone

getFullYear(time, zone) == IF LocalTime(time, zone) >= 0 THEN 1970 ELSE 1969

getMonth(time, zone) == IF LocalTime(time, zone) >= 0 THEN 0 ELSE 11

getDay(time, zone) == IF LocalTime(time, zone) >= 0 THEN 4 ELSE 3

getHours(time, zone) == (LocalTime(time, zone) \div MsPerHour) % 24

(* the record returned when no Date is valid, with total 0 *)
NoValidDatesZeroTotal(total, duplicates) ==
  [total |-> 0, unique |-> 0, duplicates |-> duplicates,
   earliest |-> Null, latest |-> Null, range |-> Null,
   average |-> Null, median |-> Null,
   formats |-> <<>>, timezones |-> <<>>, years |-> <<>>,
   months |-> <<>>, daysOfWeek |-> <<>>, hours |-> <<>>]

(* the record returned for no dates and for no valid Date *)
NoValidDates(total, duplicates) ==
  [total |-> total, unique |-> 0, duplicates |-> duplicates,
   earliest |-> Null, latest |-> Null, range |-> Null,
   average |-> Null, median |-> Null,
   formats |-> <<>>, timezones |-> <<>>, years |-> <<>>,
   months |-> <<>>, daysOfWeek |-> <<>>, hours |-> <<>>]

calculateDateStatistics(dates, zone) ==
  LET Full(validDates, sortedDates, unique, medianIndex) ==
        [total |-> Len(dates),
         unique |-> unique,
         duplicates |-> Len(dates) - unique,
         earliest |-> [ms |-> sortedDates[1]],
         latest |-> [ms |-> sortedDates[Len(sortedDates)]],
         range |-> [ms |-> sortedDates[Len(sortedDates)] - sortedDates[1]],
         average |-> NewDateOfQuotient(Sum(validDates), Len(validDates)),
         median |->
           IF Len(sortedDates) % 2 = 0
           THEN NewDateOfQuotient(sortedDates[medianIndex]
                                    + sortedDates[medianIndex + 1], 2)
           ELSE [ms |-> sortedDates[medianIndex + 1]],
         formats |-> Histogram([i \in 1..Len(dates) |-> dates[i].format]),
         timezones |->
           Histogram([i \in 1..Len(validDates) |-> getTimezoneOffset(zone)]),
         years |->
           Histogram([i \in 1..Len(validDates) |->
                        getFullYear(validDates[i], zone)]),
         months |->
           Histogram([i \in 1..Len(validDates) |->
                        getMonth(validDates[i], zone)]),
         daysOfWeek |->
           Histogram([i \in 1..Len(validDates) |->
                        getDay(validDates[i], zone)]),
         hours |->
           Histogram([i \in 1..Len(validDates) |->
                        getHours(validDates[i], zone)])]
      Valid(validDates) ==
        IF Len(validDates) = 0
        THEN NoValidDates(Len(dates), Len(dates))
        ELSE Full(validDates, SortAscending(validDates),
                  Cardinality({validDates[i] : i \in 1..Len(validDates)}),
                  Len(validDates) \div 2)
  IN  IF Len(dates) = 0 THEN NoValidDates(0, 0) ELSE Valid(ValidTimes(dates))

(* one DateAnomaly *)
Anomaly(type, date, severity, description, suggestion) ==
  [type |-> type, date |-> date, severity |-> severity,
   description |-> description, suggestion |-> suggestion]

(* the formats of dates in the order of their first entry, each with the   *)
(* number of its entries: the entries of the Map formatGroups              *)
FormatGroups(dates) ==
  LET Groups(firsts) ==
        [k \in 1..Len(firsts) |->
           [format |-> dates[firsts[k]].format,
            length |-> Cardinality({i \in 1..Len(dates) :
                                      dates[i].format
                                        = dates[firsts[k]].format})]]
  IN  Groups(SelectSeq([i \in 1..Len(dates) |-> i],
                       LAMBDA i : \A j \in 1..(i - 1) :
                                     dates[j].format # dates[i].format))

(* the first group after the sort, were the last of the largest groups to  *)
(* come first                                                              *)
DominantFormatLastOfTies(groups) ==
  groups[CHOOSE k \in 1..Len(groups) :
           /\ \A m \in 1..Len(groups) : groups[m].length <= groups[k].length
           /\ \A m \in (k + 1)..Len(groups) :
                 groups[m].length < groups[k].length].format

(* entries.sort(([, a], [, b]) => b.length - a.length)[0][0]: the sort is  *)
(* stable, the first of the largest groups comes first                     *)
DominantFormat(groups) ==
  groups[CHOOSE k \in 1..Len(groups) :
           /\ \A m \in 1..Len(groups) : groups[m].length <= groups[k].length
           /\ \A m \in 1..(k - 1) :
                 groups[m].length < groups[k].length].format

(* detectDateAnomalies(dates), new Date() being the instant now *)
detectDateAnomalies(dates, now) ==
  LET Flag(kept, type, severity, text, suggestion) ==
        [i \in 1..Len(kept) |->
           Anomaly(type, kept[i], severity,
                   [text |-> text, value |-> kept[i].value],
                   [text |-> suggestion])]
      future ==
        Flag(SelectSeq(dates,
                       LAMBDA date :
                         /\ Truthy(date.timestamp)
                         /\ getTime(date.timestamp) # NaN
                         /\ getTime(date.timestamp).ms > now),
             "future", "medium", "Future date detected",
             "Verify if this is expected or a data entry error")
      invalid ==
        Flag(SelectSeq(dates,
                       LAMBDA date :
                         /\ Truthy(date.timestamp)
                         /\ getTime(date.timestamp) = NaN),
             "invalid", "high", "Invalid date format",
             "Check date format and ensure it matches expected pattern")
      (* 2 * lowerBound and 2 * upperBound: the bounds have a half *)
      Outside(validDates, q1, q3) ==
        Flag(SelectSeq(validDates,
                       LAMBDA date :
                         \/ 2 * date.timestamp.ms < 2 * q1 - 3 * (q3 - q1)
                         \/ 2 * date.timestamp.ms > 2 * q3 + 3 * (q3 - q1)),
             "outlier", "low", "Date outlier detected",
             "Review if this date is expected or represents an anomaly")
      Quartiles(validDates, timestamps) ==
        Outside(validDates,
                timestamps[(Len(timestamps) \div 4) + 1],
                timestamps[((3 * Len(timestamps)) \div 4) + 1])
      Outliers(validDates) ==
        IF Len(validDates) > 4
        THEN Quartiles(validDates,
                       SortAscending([i \in 1..Len(validDates) |->
                                        validDates[i].timestamp.ms]))
        ELSE <<>>
      Others(kept, dominantFormat) ==
        [i \in 1..Len(kept) |->
           Anomaly("format-inconsistent", kept[i], "low",
                   [text |-> "Inconsistent date format",
                    value |-> kept[i].value, format |-> kept[i].format],
                   [text |-> "Consider standardizing to",
                    format |-> dominantFormat])]
      Against(dominantFormat) ==
        Others(SelectSeq(dates, LAMBDA date : date.format # dominantFormat),
               dominantFormat)
      Inconsistent(formatGroups) ==
        IF Len(formatGroups) > 1
        THEN Against(DominantFormat(formatGroups))
        ELSE <<>>
  IN  future \o invalid \o Outliers(SelectSeq(dates, IsValidDate))
        \o Inconsistent(FormatGroups(dates))

(* a quotient of two numbers, kept as the pair (den > 0) *)
Ratio(num, den) == [num |-> num, den |-> den]

Abs(n) == IF n >= 0 THEN n ELSE -n

(* a % b of the language, with the sign of a (b > 0) *)
Remainder(a, b) == IF a >= 0 THEN a % b ELSE -((-a) % b)

(* calculateIntervals(dates): the differences of neighbours, in the order  *)
(* of the entries                                                          *)
calculateIntervals(times) ==
  [i \in 1..(Len(times) - 1) |-> times[i + 1] - times[i]]

(* Math.abs(interval - key) / key <= tolerance, the tolerance being 0.1:   *)
(* the quotient is at most 0 for a negative key, and NaN or Infinity for   *)
(* the key 0                                                               *)
WithinTolerance(interval, key) ==
  IF key > 0 THEN 10 * Abs(interval - key) <= key ELSE key < 0

(* the Map groups after one more interval: it joins the first group whose  *)
(* key it is within tolerance of, or is set as a group of its own          *)
PutInterval(groups, interval) ==
  LET JoinGroup(k) ==
        [groups EXCEPT ![k].members = Append(@, interval)]
      Set(same) ==
        IF same = {}
        THEN Append(groups, [key |-> interval, members |-> <<interval>>])
        ELSE [k \in 1..Len(groups) |->
                IF k \in same
                THEN [key |-> interval, members |-> <<interval>>]
                ELSE groups[k]]
      Place(found) ==
        IF found # {}
        THEN JoinGroup(CHOOSE k \in found : \A m \in found : k <= m)
        ELSE Set({k \in 1..Len(groups) : groups[k].key = interval})
  IN  Place({k \in 1..Len(groups) :
               WithinTolerance(interval, groups[k].key)})

RECURSIVE GroupIntervals(_, _)
GroupIntervals(intervals, groups) ==
  IF intervals = <<>> THEN groups
  ELSE GroupIntervals(Tail(intervals), PutInterval(groups, Head(intervals)))

(* findMostCommonInterval(intervals): the key of the first of the largest  *)
(* groups as [ms |-> key], null without a group                            *)
findMostCommonInterval(intervals) ==
  LET MostCommon(groups) ==
        IF groups = <<>> THEN Null
        ELSE [ms |->
                groups[CHOOSE k \in 1..Len(groups) :
                         /\ \A m \in 1..Len(groups) :
                               Len(groups[m].members)
                                 <= Len(groups[k].members)
                         /\ \A m \in 1..(k - 1) :
                               Len(groups[m].members)
                                 < Len(groups[k].members)
                      ].key]
  IN  MostCommon(GroupIntervals(intervals, <<>>))

(* calculateConfidence(intervals, targetInterval) *)
calculateConfidence(intervals, targetInterval) ==
  Ratio(Cardinality({i \in 1..Len(intervals) :
                       WithinTolerance(intervals[i], targetInterval)}),
        Len(intervals))

MsPerMinute == 60 * 1000

MsPerDay == 24 * 60 * 60 * 1000

(* formatInterval(interval): the number and the unit of the text *)
formatInterval(interval) ==
  LET Text(n, unit) ==
        [count |-> n, unit |-> unit, plural |-> n > 1]
      days    == interval \div MsPerDay
      hours   == Remainder(interval, MsPerDay) \div MsPerHour
      minutes == Remainder(interval, MsPerHour) \div MsPerMinute
  IN  IF days > 0 THEN Text(days, "day")
      ELSE IF hours > 0 THEN Text(hours, "hour")
      ELSE Text(minutes, "minute")

monthNames ==
  <<"January", "February", "March", "April", "May", "June", "July",
    "August", "September", "October", "November", "December">>

(* (x * 100).toFixed(1) of the quotient num / den, in tenths *)
PercentToFixed1(num, den) == (2 * 1000 * num + den) \div (2 * den)

(* the first three values of the entries *)
Examples(dates) ==
  [i \in 1..(IF Len(dates) < 3 THEN Len(dates) ELSE 3) |-> dates[i].value]

(* detectSeasonalPattern(dates): more than 30% of the dates in one month *)
detectSeasonalPattern(dates, zone) ==
  LET MonthOf(d) == getMonth(getTime(d.timestamp).ms, zone)
      monthCounts ==
        [m \in 0..11 |->
           Cardinality({i \in 1..Len(dates) : MonthOf(dates[i]) = m})]
      Pattern(maxCount, maxMonth, totalDates) ==
        IF 10 * maxCount > 3 * totalDates
        THEN [type |-> "seasonal",
              description |->
                [text |-> "Seasonal pattern",
                 percent |-> PercentToFixed1(maxCount, totalDates),
                 month |-> monthNames[maxMonth + 1]],
              confidence |-> Ratio(maxCount, totalDates),
              examples |->
                Examples(SelectSeq(dates,
                                   LAMBDA d : MonthOf(d) = maxMonth))]
        ELSE Null
      IndexOf(maxCount) ==
        Pattern(maxCount,
                CHOOSE m \in 0..11 :
                   /\ monthCounts[m] = maxCount
                   /\ \A k \in 0..(m - 1) : monthCounts[k] # maxCount,
                Len(dates))
  IN  IndexOf(CHOOSE c \in 0..Len(dates) :
                 /\ \E m \in 0..11 : monthCounts[m] = c
                 /\ \A m \in 0..11 : monthCounts[m] <= c)

(* the confidence of a trend, not capped at 1 *)
TrendConfidenceUncapped(num, den) == Ratio(num, den)

(* Math.min(confidence, 1) *)
TrendConfidence(num, den) ==
  IF num >= den THEN Ratio(1, 1) ELSE Ratio(num, den)

(* detectTrendPattern(dates): the slope of the regression line of the time *)
(* values over their places, normalized by their mean                      *)
detectTrendPattern(dates) ==
  LET y == [i \in 1..Len(dates) |-> getTime(dates[i].timestamp).ms]
      n == Len(dates)
      Pattern(slopeNum, confidence) ==
        [type |-> "trend",
         description |->
           [text |-> "trend detected in date sequence",
            trend |-> IF slopeNum > 0 THEN "increasing" ELSE "decreasing"],
         confidence |-> confidence,
         examples |-> Examples(dates)]
      (* slope = slopeNum / slopeDen, slopeDen > 0;                        *)
      (* confidence = |slope| / (sumY / n)                                 *)
      Trend(sumY, slopeNum, slopeDen) ==
        IF sumY = 0
        THEN (IF slopeNum = 0 THEN Null ELSE Pattern(slopeNum, Ratio(1, 1)))
        ELSE IF sumY < 0 THEN Null
        ELSE IF 10 * Abs(slopeNum) * n > slopeDen * sumY
             THEN Pattern(slopeNum,
                          TrendConfidence(Abs(slopeNum) * n, slopeDen * sumY))
             ELSE Null
      Sums(sumX, sumY, sumXY, sumXX) ==
        Trend(sumY, n * sumXY - sumX * sumY, n * sumXX - sumX * sumX)
  IN  IF n < 3 THEN Null
      ELSE Sums(Sum([i \in 1..n |-> i - 1]), Sum(y),
                Sum([i \in 1..n |-> (i - 1) * y[i]]),
                Sum([i \in 1..n |-> (i - 1) * (i - 1)]))

(* detectDatePatterns(dates) on a host whose time zone is zone *)
detectDatePatterns(dates, zone) ==
  LET Optional(pattern) == IF pattern = Null THEN <<>> ELSE <<pattern>>
      Frequency(validDates, intervals, mostCommonInterval) ==
        IF mostCommonInterval \notin {Null, [ms |-> 0]}
        THEN <<[type |-> "frequency",
                description |->
                  [text |-> "Regular interval pattern",
                   interval |-> formatInterval(mostCommonInterval.ms)],
                confidence |->
                  calculateConfidence(intervals, mostCommonInterval.ms),
                examples |-> Examples(validDates)]>>
        ELSE <<>>
      Intervals(validDates, intervals) ==
        IF Len(intervals) > 0
        THEN Frequency(validDates, intervals,
                       findMostCommonInterval(intervals))
        ELSE <<>>
      Detect(validDates) ==
        IF Len(validDates) < 3 THEN <<>>
        ELSE Intervals(validDates, calculateIntervals(ValidTimes(validDates)))
               \o Optional(detectSeasonalPattern(validDates, zone))
               \o Optional(detectTrendPattern(validDates))
  IN  Detect(SelectSeq(dates, IsValidDate))

(* the cluster of the entry at index: it and the other entries not yet     *)
(* processed that are within clusterThreshold of it, in their order        *)
ClusterOf(validDates, index, processed) ==
  LET Members(taken) ==
        [center |->
           NewDateOfQuotient(
             Sum([i \in 1..Len(taken) |->
                    getTime(validDates[taken[i]].timestamp).ms]),
             Len(taken)),
         dates |-> [i \in 1..Len(taken) |-> validDates[taken[i]]],
         indexes |-> taken,
         density |-> Ratio(Len(taken) * MsPerHour, MsPerDay)]
  IN  Members(<<index>> \o
              SelectSeq([i \in 1..Len(validDates) |-> i],
                        LAMBDA otherIndex :
                          /\ otherIndex # index
                          /\ otherIndex \notin processed
                          /\ Abs(getTime(validDates[index].timestamp).ms
                                 - getTime(validDates[otherIndex].timestamp).ms)
                               <= MsPerDay))

RECURSIVE ForEachValidDate(_, _, _, _)
(* validDates.forEach((date, index) => ...) from index on *)
ForEachValidDate(validDates, index, processed, found) ==
  IF index > Len(validDates) THEN found
  ELSE IF index \in processed
       THEN ForEachValidDate(validDates, index + 1, processed, found)
       ELSE LET Push(cluster) ==
                  ForEachValidDate(
                    validDates, index + 1,
                    processed \cup {cluster.indexes[i] :
                                      i \in 1..Len(cluster.indexes)},
                    Append(found, cluster))
            IN  Push(ClusterOf(validDates, index, processed))

(* clusterDates(dates) *)
clusterDates(dates) ==
  LET Described(found) ==
        [k \in 1..Len(found) |->
           [center |-> found[k].center,
            dates |-> found[k].dates,
            density |-> found[k].density,
            description |->
              [count |-> Len(found[k].dates), text |-> "dates clustered around",
               center |-> found[k].center]]]
  IN  Described(ForEachValidDate(SelectSeq(dates, IsValidDate), 1, {}, <<>>))

(* formatDuration(milliseconds) *)
formatDuration(milliseconds) ==
  LET Text(n, unit) ==
        [count |-> n, unit |-> unit, plural |-> n > 1]
      days  == milliseconds \div MsPerDay
      hours == Remainder(milliseconds, MsPerDay) \div MsPerHour
  IN  IF days > 0 THEN Text(days, "day") ELSE Text(hours, "hour")

gapThreshold == 7 * 24 * 60 * 60 * 1000

(* detectDateGaps(dates) *)
detectDateGaps(dates) ==
  LET Gaps(validDates) ==
        LET Gap(i) ==
              [start |-> [ms |-> validDates[i - 1]],
               end |-> [ms |-> validDates[i]],
               duration |-> validDates[i] - validDates[i - 1],
               description |->
                 [text |-> "Gap of",
                  duration |->
                    formatDuration(validDates[i] - validDates[i - 1]),
                  start |-> validDates[i - 1], end |-> validDates[i]]]
            Pushed(at) == [k \in 1..Len(at) |-> Gap(at[k])]
        IN  IF Len(validDates) < 2 THEN <<>>
            ELSE Pushed(SelectSeq([i \in 1..(Len(validDates) - 1) |-> i + 1],
                                  LAMBDA i :
                                    validDates[i] - validDates[i - 1]
                                      > gapThreshold))
  IN  Gaps(SortAscending(ValidTimes(dates)))

(* Enhanced errors (utils/errorHandling.ts).  Messages are texts. *)

ErrorCategories ==
  {"parse", "validation", "safety", "operational", "file-system",
   "configuration"}

FatalText == <<"f", "a", "t", "a", "l">>

PermissionText == <<"p", "e", "r", "m", "i", "s", "s", "i", "o", "n">>

NetworkText == <<"n", "e", "t", "w", "o", "r", "k">>

NoContext == [undefined |-> TRUE]

(* localize(key, message, arg): the message of the key with {0} filled in *)
localize(key, arg) == [key |-> key, arg |-> arg]

UnknownFile == <<"u", "n", "k", "n", "o", "w", "n", " ", "f", "i", "l", "e">>

buildUserFriendlyMessage(message, category, context) ==
  IF category = "parse"
  THEN localize("runtime.error.parse",
                IF context = NoContext \/ context = [text |-> <<>>]
                THEN UnknownFile ELSE context.text)
  ELSE IF category \in ErrorCategories
       THEN localize("runtime.error." \o category, message)
       ELSE localize("runtime.error.unknown", message)

buildSuggestion(category) ==
  IF category \in ErrorCategories
  THEN localize("runtime.error." \o category \o ".suggestion", <<>>)
  ELSE localize("runtime.error.unknown.suggestion", <<>>)

(* isRecoverable with a file-system error recoverable on 'permission' only *)
isRecoverablePermissionOnly(message, category) ==
  CASE category = "safety" -> FALSE
    [] category = "operational" -> ~Includes(message, FatalText)
    [] category = "file-system" -> Includes(message, PermissionText)
    [] OTHER -> TRUE

isRecoverable(message, category) ==
  CASE category = "safety" -> FALSE
    [] category = "operational" -> ~Includes(message, FatalText)
    [] category = "file-system" ->
         Includes(message, PermissionText) \/ Includes(message, NetworkText)
    [] OTHER -> TRUE

createEnhancedError(message, category, context, now) ==
  [created |-> TRUE,
   category |-> category,
   message |-> message,
   userFriendlyMessage |-> buildUserFriendlyMessage(message, category, context),
   suggestion |-> buildSuggestion(category),
   recoverable |-> isRecoverable(message, category),
   timestamp |-> now]

(* The performance monitor (utils/performance.ts).  A Map is the sequence  *)
(* of its entries in insertion order.                                      *)

(* map.set(key, value): an entry that is present keeps its place *)
MapSet(map, key, value) ==
  IF \E i \in 1..Len(map) : map[i].key = key
  THEN [i \in 1..Len(map) |->
          IF map[i].key = key THEN [key |-> key, value |-> value] ELSE map[i]]
  ELSE Append(map, [key |-> key, value |-> value])

(* the map without its entry number k *)
MapDeleteAt(map, k) ==
  [i \in 1..(Len(map) - 1) |-> IF i < k THEN map[i] ELSE map[i + 1]]

(* the map without the first entry that satisfies Test, if there is one *)
MapDeleteFirst(map, Test(_)) ==
  IF \E i \in 1..Len(map) : Test(map[i])
  THEN MapDeleteAt(map,
                   CHOOSE i \in 1..Len(map) :
                      /\ Test(map[i])
                      /\ \A j \in 1..(i - 1) : ~Test(map[j]))
  ELSE map

(* the value of a variable that was never assigned *)
Undefined == [undefined |-> TRUE]

createTimer == [startTime |-> Undefined, endTime |-> Undefined]

timerLimit == 50

(* startTimer(name): the Map of the monitor after the call *)
startTimer(timers, name, timer) ==
  LET Cleaned(set) ==
        IF Len(set) > timerLimit /\ set[1].key # "" THEN Tail(set) ELSE set
  IN  Cleaned(MapSet(timers, name, timer))

(* 1000 / duration *)
PerSecond(duration) == Ratio(1000, duration)

(* timer.end() at the clock value now *)
timerEnd(timer, now, heapUsed, cpuUsage) ==
  LET startTime == IF timer.startTime = Undefined THEN now
                   ELSE timer.startTime.ms
      duration == now - startTime
  IN  [duration |-> duration,
       memoryUsage |-> heapUsed,
       cpuUsage |-> cpuUsage,
       throughput |-> IF duration > 0 THEN PerSecond(duration)
                      ELSE Ratio(0, 1),
       startTime |-> startTime,
       endTime |-> now]

(* the monitor after startTimer(name) *)
MonitorStarted(m, name) ==
  [m EXCEPT !.timers = startTimer(m.timers, name, Len(m.created) + 1),
            !.created = Append(m.created,
                               [startTime |-> createTimer.startTime,
                                endTime |-> createTimer.endTime,
                                startedAt |-> m.clock])]

(* the monitor after endTimer(timer) *)
MonitorEnded(m, timer, heapUsed, cpuUsage) ==
  LET IsTimer(entry) == entry.value = timer
      Ended(metrics) ==
        [m EXCEPT !.timers = MapDeleteFirst(m.timers, IsTimer),
                  !.created[timer].endTime = [ms |-> m.clock],
                  !.returned = [timer |-> timer, metrics |-> metrics]]
  IN  Ended(timerEnd(m.created[timer], m.clock, heapUsed, cpuUsage))

(* calculateThroughput(count, duration) of the extract command *)
calculateThroughput(count, duration) ==
  IF duration <= 0 THEN Ratio(0, 1) ELSE Ratio(count * 1000, duration)

(* The commands that start with an extraction (commands/extract.ts,       *)
(* analyze.ts, convert.ts, filter.ts, validate.ts).                        *)

(* what the notifier showed for a command, with the ExtractionResult the   *)
(* command got; kind is none when the command returned without a message   *)
Shown(command, kind, message, args, extraction) ==
  [shown |-> TRUE, command |-> command, kind |-> kind, message |-> message,
   args |-> args, extraction |-> extraction]

(* throughput.toFixed(0) and (throughput / 1000).toFixed(1), the latter in *)
(* tenths, of formatThroughput                                             *)
formatThroughput(throughput) ==
  IF throughput.num < 1000 * throughput.den
  THEN [count |-> (2 * throughput.num + throughput.den)
                    \div (2 * throughput.den),
        unit |-> "items/s"]
  ELSE IF throughput.num < 1000000 * throughput.den
       THEN [count |-> (throughput.num + 50 * throughput.den)
                         \div (100 * throughput.den),
             unit |-> "K items/s (tenths)"]
       ELSE [count |-> (throughput.num + 50000 * throughput.den)
                         \div (100000 * throughput.den),
             unit |-> "M items/s (tenths)"]

(* the part of the extract command after endTimer; copyToClipboardEnabled  *)
(* is off                                                                  *)
extractCommandOutcome(extraction, metrics, opened) ==
  IF ~extraction.success
  THEN Shown("extract", "error", "Failed to extract dates: {0}",
             <<IF Len(extraction.errors) > 0
                  /\ extraction.errors[1].message # ""
               THEN extraction.errors[1].message ELSE "Unknown error">>,
             extraction)
  ELSE IF Len(extraction.dates) = 0
       THEN Shown("extract", "info", "No dates found in the current document",
                  <<>>, extraction)
       ELSE IF ~opened
            THEN Shown("extract", "error", "Failed to open results", <<>>,
                       extraction)
            ELSE Shown("extract", "info", "Extracted {0} dates ({1})",
                       <<Len(extraction.dates),
                         formatThroughput(
                           calculateThroughput(Len(extraction.dates),
                                               metrics.duration))>>,
                       extraction)

ProgressCommands == {"analyze", "convert", "filter", "validate"}

(* the progress callback of analyze, convert, filter and validate up to    *)
(* the end of its block on the extraction result; on a result with dates   *)
(* the command goes on to its next stage without a message                 *)
progressCommandOutcome(command, extraction, cancelled) ==
  IF cancelled
  THEN Shown(command, "none", "", <<>>, extraction)
  ELSE IF ~extraction.success \/ Len(extraction.dates) = 0
       THEN Shown(command, "info", "No dates found to " \o command, <<>>,
                  extraction)
       ELSE Shown(command, "none", "", <<>>, extraction)

(* The bounded cache of createPerformanceCache (utils/performance.ts).    *)
(* Keys are strings; a value is a record, Undefined being the value        *)
(* undefined.                                                              *)

MapHas(map, key) == \E i \in 1..Len(map) : map[i].key = key

(* map.get(key) *)
MapGet(map, key) ==
  IF MapHas(map, key)
  THEN map[CHOOSE i \in 1..Len(map) : map[i].key = key].value
  ELSE Undefined

(* map.delete(key) *)
MapDelete(map, key) ==
  LET HasKey(entry) == entry.key = key
  IN  MapDeleteFirst(map, HasKey)

MapKeys(map) == {map[i].key : i \in 1..Len(map)}

(* the sequence without the elements equal to x *)
Without(seq, x) ==
  LET Keep(y) == y # x
  IN  SelectSeq(seq, Keep)

(* createPerformanceCache(maxSize); recency lists the keys of the cache    *)
(* from the least to the most recently accessed by get or set and last     *)
(* tells the last call, both kept for the properties                       *)
createPerformanceCache(maxSize) ==
  [made |-> TRUE, maxSize |-> maxSize, cache |-> <<>>, accessOrder |-> <<>>,
   accessCounter |-> 0, recency |-> <<>>,
   last |-> [op |-> "create", evicted |-> {}]]

(* the key of the first entry of accessOrder with the least access: the    *)
(* loop of set with access < oldestAccess                                  *)
oldestKey(accessOrder) ==
  accessOrder[CHOOSE i \in 1..Len(accessOrder) :
                 /\ \A j \in 1..Len(accessOrder) :
                       accessOrder[i].value <= accessOrder[j].value
                 /\ \A j \in 1..(i - 1) :
                       accessOrder[j].value > accessOrder[i].value].key

(* the maps of c once set has made room for an entry *)
MadeRoom(c) ==
  IF Len(c.cache) >= c.maxSize /\ Len(c.accessOrder) > 0
  THEN [c EXCEPT !.cache = MapDelete(c.cache, oldestKey(c.accessOrder)),
                 !.accessOrder =
                    MapDelete(c.accessOrder, oldestKey(c.accessOrder))]
  ELSE c

(* the cache after get(key) *)
cacheGet(c, key) ==
  [c EXCEPT !.accessOrder =
               IF MapGet(c.cache, key) # Undefined
               THEN MapSet(c.accessOrder, key, c.accessCounter + 1)
               ELSE c.accessOrder,
            !.accessCounter =
               IF MapGet(c.cache, key) # Undefined THEN @ + 1 ELSE @,
            !.recency =
               IF MapHas(c.cache, key) THEN Append(Without(@, key), key)
               ELSE @,
            !.last = [op |-> "get", key |-> key, evicted |-> {},
                      returned |-> MapGet(c.cache, key)]]

(* the cache after set(key, value) *)
cacheSet(c, key, value) ==
  LET Stored(room) ==
        [room EXCEPT
           !.cache = MapSet(room.cache, key, value),
           !.accessOrder = MapSet(room.accessOrder, key, c.accessCounter + 1),
           !.accessCounter = @ + 1,
           !.recency =
              LET kept == MapKeys(room.cache) \cup {key}
                  Kept(k) == k \in kept
              IN  Append(Without(SelectSeq(c.recency, Kept), key), key),
           !.last =
              [op |-> "set", key |-> key,
               evicted |-> MapKeys(c.cache) \ (MapKeys(room.cache) \cup {key}),
               present |-> MapHas(c.cache, key),
               full |-> Len(c.cache) >= c.maxSize,
               leastRecent |-> IF c.recency = <<>> THEN {}
                               ELSE {c.recency[1]}]]
  IN  Stored(MadeRoom(c))

(* the cache after has(key) *)
cacheHas(c, key) ==
  [c EXCEPT !.last = [op |-> "has", key |-> key, evicted |-> {},
                      returned |-> MapHas(c.cache, key)]]

(* the cache after delete(key) *)
cacheDelete(c, key) ==
  [c EXCEPT !.cache = MapDelete(@, key),
            !.accessOrder =
               IF MapHas(c.cache, key) THEN MapDelete(@, key) ELSE @,
            !.recency = Without(@, key),
            !.last = [op |-> "delete", key |-> key, evicted |-> {},
                      returned |-> MapHas(c.cache, key)]]

(* the cache after clear() *)
cacheClear(c) ==
  [c EXCEPT !.cache = <<>>, !.accessOrder = <<>>, !.accessCounter = 0,
            !.recency = <<>>,
            !.last = [op |-> "clear", evicted |-> {}]]

(* The performance monitoring service (utils/performance.ts). *)

RECURSIVE CancelAll(_, _)
(* the trackers once operation.cancel() ran for the values of the map *)
CancelAll(trackers, active) ==
  IF active = <<>> THEN trackers
  ELSE CancelAll([trackers EXCEPT ![Head(active).value].ended = TRUE],
                 Tail(active))

(* the service after startOperation(operation) at the clock value now *)
serviceStartOperation(s, operation, now) ==
  IF s.disposed
  THEN [s EXCEPT !.last = [op |-> "startOperation", threw |-> TRUE,
                           disposed |-> TRUE]]
  ELSE [s EXCEPT
          !.trackers = Append(@, [operation |-> operation,
                                  startTime |-> now, ended |-> FALSE]),
          !.activeOperations = MapSet(@, operation, Len(s.trackers) + 1),
          !.last = [op |-> "startOperation", threw |-> FALSE,
                    disposed |-> FALSE]]

(* the service after end() of the tracker at the clock value now *)
operationEnd(s, tracker, now, heapUsed) ==
  IF s.trackers[tracker].ended
  THEN [s EXCEPT !.last = [op |-> "end", threw |-> TRUE, ended |-> TRUE]]
  ELSE [s EXCEPT
          !.trackers[tracker].ended = TRUE,
          !.activeOperations = MapDelete(@, s.trackers[tracker].operation),
          !.last =
             [op |-> "end", threw |-> FALSE, ended |-> FALSE,
              metrics |->
                [duration |-> now - s.trackers[tracker].startTime,
                 memoryUsage |-> heapUsed, cpuUsage |-> 0, throughput |-> 0,
                 startTime |-> s.trackers[tracker].startTime,
                 endTime |-> now]]]

(* the service after cancel() of the tracker *)
operationCancel(s, tracker) ==
  [s EXCEPT !.trackers[tracker].ended = TRUE,
            !.activeOperations = MapDelete(@, s.trackers[tracker].operation),
            !.last = [op |-> "cancel", threw |-> FALSE]]

(* isActive() of the tracker *)
isActive(s, tracker) == ~s.trackers[tracker].ended

(* the service after dispose() *)
serviceDispose(s) ==
  [s EXCEPT !.disposed = TRUE,
            !.trackers = CancelAll(s.trackers, s.activeOperations),
            !.activeOperations = <<>>,
            !.last = [op |-> "dispose", threw |-> FALSE]]

(* The validation rules (commands/validate.ts). *)

(* /^\d{4}-\d{2}-\d{2}T\d{2}:\d{2}:\d{2}(?:\.\d{3})?(?:Z|[+-]\d{2}:\d{2})$/ *)
ISO_8601_RULE_PATTERN ==
  <<D(4), Ch("-"), D(2), Ch("-"), D(2), Ch("T")>> \o Time \o
  <<Alt(<< <<Ch("."), D(3)>>, <<>> >>),
    Alt(<< <<Ch("Z")>>, <<Sign, D(2), Ch(":"), D(2)>> >>)>>

(* pattern.test(s) of a pattern between ^ and $ *)
TestWhole(pat, s) ==
  LET ToTheEnd(r) == r.ok /\ r.end = Len(s) + 1
  IN  ToTheEnd(MatchAt(pat, s, 1, NoCap))

availableRules ==
  <<[name |-> "Valid Date Format", severity |-> "error",
     description |-> "Ensure dates are in valid format and can be parsed",
     suggestion |->
       "Check date format and ensure it matches expected pattern"],
    [name |-> "Not Future Date", severity |-> "warning",
     description |-> "Ensure dates are not in the future",
     suggestion |->
       "Verify if future dates are expected or correct the date"],
    [name |-> "Reasonable Date Range", severity |-> "warning",
     description |-> "Ensure dates are within reasonable range (1900-2100)",
     suggestion |->
       "Check if the date is correct or represents a special case"],
    [name |-> "ISO 8601 Compliance", severity |-> "info",
     description |-> "Ensure dates follow ISO 8601 standard",
     suggestion |->
       "Consider using ISO 8601 format for better compatibility"],
    [name |-> "Timezone Consistency", severity |-> "info",
     description |-> "Ensure timezone information is consistent",
     suggestion |-> "Include timezone information for better clarity"]>>

(* validate of the Timezone Consistency rule *)
timezoneConsistency(date) ==
  IF date.format # "iso" THEN TRUE
  ELSE \/ Includes(date.value, <<"Z">>)
       \/ Includes(date.value, <<"+">>)
       \/ Includes(date.value, <<"-">>)

(* rule.validate(date) of the rule of that name, in the zone and at the    *)
(* clock value now                                                         *)
ruleValidate(name, date, zone, now) ==
  CASE name = "Valid Date Format" ->
         IF ~Truthy(date.timestamp) THEN FALSE
         ELSE getTime(date.timestamp) # NaN
    [] name = "Not Future Date" ->
         IF ~Truthy(date.timestamp) THEN FALSE
         ELSE /\ getTime(date.timestamp) # NaN
              /\ getTime(date.timestamp).ms <= now
    [] name = "Reasonable Date Range" ->
         IF ~Truthy(date.timestamp) THEN FALSE
         ELSE /\ getTime(date.timestamp) # NaN
              /\ getFullYear(getTime(date.timestamp).ms, zone) >= 1900
              /\ getFullYear(getTime(date.timestamp).ms, zone) <= 2100
    [] name = "ISO 8601 Compliance" ->
         IF date.format # "iso" THEN TRUE
         ELSE TestWhole(ISO_8601_RULE_PATTERN, date.value)
    [] name = "Timezone Consistency" -> timezoneConsistency(date)

(* validateDates(dates, rules) *)
validateDates(dates, rules, zone, now) ==
  LET Failure(rule) ==
        [rule |-> rule.name, severity |-> rule.severity,
         message |-> rule.name \o ": " \o rule.description,
         suggestion |-> rule.suggestion]
      Failures(date) ==
        LET Fails(rule) == ~ruleValidate(rule.name, date, zone, now)
            Failed(failing) == [i \in 1..Len(failing) |-> Failure(failing[i])]
        IN  Failed(SelectSeq(rules, Fails))
      Result(date, failures) ==
        [date |-> date, passed |-> Len(failures) = 0, failures |-> failures]
  IN  [i \in 1..Len(dates) |-> Result(dates[i], Failures(dates[i]))]

----------------------------------------------------------------------------
(* The state machine: a document is typed and given a language, the        *)
(* extraction is run on it; a list of matches is deduplicated.             *)

NoResult == [pending |-> TRUE]

(* lastIndex of the six module-level patterns of the line scanner *)
ZeroLastIndex ==
  [iso |-> 0, rfc2822 |-> 0, unix |-> 0, utc |-> 0, local |-> 0, simple |-> 0]

NewScanner == [lastIndex |-> ZeroLastIndex, scans |-> <<>>]

NotCreated == [created |-> FALSE]

(* no command has run: nothing was shown by the notifier *)
NothingShown == [shown |-> FALSE, kind |-> "none"]

NotMade == [made |-> FALSE]

(* createPerformanceMonitoringService(): trackers are the operation        *)
(* trackers startOperation returned so far, last tells the last call       *)
NewService ==
  [disposed |-> FALSE, activeOperations |-> <<>>, trackers |-> <<>>,
   last |-> [op |-> "create", threw |-> FALSE]]

(* a monitor without timers at clock 0; timers is the Map of the monitor,  *)
(* created the timer objects made so far (startedAt is the clock at their  *)
(* startTimer call, kept for the properties), returned the metrics of the  *)
(* last endTimer call                                                      *)
NewMonitor ==
  [clock |-> 0, timers |-> <<>>, created |-> <<>>,
   returned |-> [timer |-> 0]]

NotValidated == [done |-> FALSE]

NotDeduped == [done |-> FALSE, dates |-> <<>>]

NotAnalysed == [done |-> FALSE]

Init ==
  /\ content = <<>>
  /\ typed = 0
  /\ languageId = "plaintext"
  /\ promise = "none"
  /\ result = NoResult
  /\ invoked = "none"
  /\ thrown = NoFault
  /\ matches = <<>>
  /\ deduped = NotDeduped
  /\ dateValues = <<>>
  /\ statistics = NotAnalysed
  /\ anomalies = NotAnalysed
  /\ patterns = NotAnalysed
  /\ clusters = NotAnalysed
  /\ gaps = NotAnalysed
  /\ scanner = NewScanner
  /\ enhanced = NotCreated
  /\ notification = NothingShown
  /\ cache = NotMade
  /\ service = NewService
  /\ monitor = NewMonitor
  /\ validation = NotValidated

Forget ==
  /\ promise' = "none"
  /\ result' = NoResult
  /\ invoked' = "none"
  /\ thrown' = NoFault

(* the user types the text seg at the end of the document *)
TypeSegment(seg, max) ==
  /\ typed < max
  /\ content' = content \o seg
  /\ typed' = typed + 1
  /\ Forget
  /\ UNCHANGED <<languageId, matches, deduped>>
  /\ UNCHANGED <<dateValues, statistics, anomalies, patterns, clusters, gaps>>
  /\ UNCHANGED componentVars

(* the user changes the language mode of the document *)
SetLanguage(id) ==
  /\ id # languageId
  /\ languageId' = id
  /\ Forget
  /\ UNCHANGED <<content, typed, matches, deduped>>
  /\ UNCHANGED <<dateValues, statistics, anomalies, patterns, clusters, gaps>>
  /\ UNCHANGED componentVars

(* extractDates(document.getText(), document.languageId) *)
ExtractDates(fault) ==
  \E r \in {extractDates(content, languageId, fault)} :
     /\ promise' = r.promise
     /\ result' = r.result
     /\ invoked' = r.invoked
     /\ thrown' = r.thrown
     /\ UNCHANGED <<content, typed, languageId, matches, deduped>>
     /\ UNCHANGED <<dateValues, statistics, anomalies, patterns, clusters, gaps>>
     /\ UNCHANGED componentVars

(* one more match in the list handed to the deduplicator *)
AppendMatch(date, max) ==
  /\ Len(matches) < max
  /\ matches' = Append(matches, date)
  /\ deduped' = NotDeduped
  /\ UNCHANGED <<content, typed, languageId, promise, result, invoked, thrown>>
  /\ UNCHANGED <<dateValues, statistics, anomalies, patterns, clusters, gaps>>
  /\ UNCHANGED componentVars

DeduplicateDates ==
  /\ deduped' = [done |-> TRUE, dates |-> deduplicateDates(matches)]
  /\ UNCHANGED <<content, typed, languageId, promise, result, invoked, thrown,
                 matches>>
  /\ UNCHANGED <<dateValues, statistics, anomalies, patterns, clusters, gaps>>
  /\ UNCHANGED componentVars

(* one more DateValue in the collection handed to the analysis *)
AppendDate(date, max) ==
  /\ Len(dateValues) < max
  /\ dateValues' = Append(dateValues, date)
  /\ statistics' = NotAnalysed
  /\ anomalies' = NotAnalysed
  /\ patterns' = NotAnalysed
  /\ clusters' = NotAnalysed
  /\ gaps' = NotAnalysed
  /\ UNCHANGED <<content, typed, languageId, promise, result, invoked, thrown,
                 matches, deduped>>
  /\ UNCHANGED componentVars

(* calculateDateStatistics(dates) on a host whose time zone is zone *)
CalculateDateStatistics(zone) ==
  /\ statistics' =
       [done |-> TRUE, zone |-> zone,
        value |-> calculateDateStatistics(dateValues, zone)]
  /\ UNCHANGED <<content, typed, languageId, promise, result, invoked, thrown,
                 matches, deduped, dateValues, anomalies, patterns, clusters,
                 gaps>>
  /\ UNCHANGED componentVars

(* detectDateAnomalies(dates) at the instant now *)
DetectDateAnomalies(now) ==
  /\ anomalies' =
       [done |-> TRUE, now |-> now,
        value |-> detectDateAnomalies(dateValues, now)]
  /\ UNCHANGED <<content, typed, languageId, promise, result, invoked, thrown,
                 matches, deduped, dateValues, statistics, patterns, clusters,
                 gaps>>
  /\ UNCHANGED componentVars

(* detectDatePatterns(dates) on a host whose time zone is zone *)
DetectDatePatterns(zone) ==
  /\ patterns' =
       [done |-> TRUE, zone |-> zone,
        value |-> detectDatePatterns(dateValues, zone)]
  /\ UNCHANGED <<content, typed, languageId, promise, result, invoked, thrown,
                 matches, deduped, dateValues, statistics, anomalies, clusters,
                 gaps>>
  /\ UNCHANGED componentVars

(* clusterDates(dates) *)
ClusterDates ==
  /\ clusters' = [done |-> TRUE, value |-> clusterDates(dateValues)]
  /\ UNCHANGED <<content, typed, languageId, promise, result, invoked, thrown,
                 matches, deduped, dateValues, statistics, anomalies, patterns,
                 gaps>>
  /\ UNCHANGED componentVars

(* detectDateGaps(dates) *)
DetectDateGaps ==
  /\ gaps' = [done |-> TRUE, value |-> detectDateGaps(dateValues)]
  /\ UNCHANGED <<content, typed, languageId, promise, result, invoked, thrown,
                 matches, deduped, dateValues, statistics, anomalies, patterns,
                 clusters>>
  /\ UNCHANGED componentVars

(* analyzeDates(dates) at the instant now, on a host whose time zone is    *)
(* zone                                                                    *)
AnalyzeDates(zone, now) ==
  /\ statistics' =
       [done |-> TRUE, zone |-> zone,
        value |-> calculateDateStatistics(dateValues, zone)]
  /\ anomalies' =
       [done |-> TRUE, now |-> now,
        value |-> detectDateAnomalies(dateValues, now)]
  /\ patterns' =
       [done |-> TRUE, zone |-> zone,
        value |-> detectDatePatterns(dateValues, zone)]
  /\ clusters' = [done |-> TRUE, value |-> clusterDates(dateValues)]
  /\ gaps' = [done |-> TRUE, value |-> detectDateGaps(dateValues)]
  /\ UNCHANGED <<content, typed, languageId, promise, result, invoked, thrown,
                 matches, deduped, dateValues>>
  /\ UNCHANGED componentVars

(* one more extractDates(text, 'json') call with the module-level patterns *)
(* as the earlier calls left them; the call has no await, so it runs from  *)
(* its first statement to its return in one step.  A scanner that raises   *)
(* does so before its first exec: no statement of the loops can throw.     *)
ExtractWithPatterns(text, fault, max) ==
  /\ Len(scanner.scans) < max
  /\ \E r \in {extractDatesFromLinesAt(text, scanner.lastIndex)} :
        scanner' =
          IF fault.raised
          THEN [lastIndex |-> scanner.lastIndex,
                scans |-> Append(scanner.scans,
                                 [content |-> text, fault |-> fault,
                                  result |-> createErrorResult(fault)])]
          ELSE [lastIndex |-> r.lastIndex,
                scans |-> Append(scanner.scans,
                                 [content |-> text, fault |-> fault,
                                  result |-> createSuccessResult(r.dates)])]
  /\ UNCHANGED <<documentVars, analysisVars>>
  /\ UNCHANGED <<enhanced, notification, cache, service, monitor, validation>>

CreateEnhancedError(message, category, context, now) ==
  /\ enhanced' = createEnhancedError(message, category, context, now)
  /\ UNCHANGED <<documentVars, analysisVars>>
  /\ UNCHANGED <<scanner, notification, cache, service, monitor, validation>>

(* the clock of Date.now() advances by a millisecond *)
Tick(max) ==
  /\ monitor.clock < max
  /\ monitor' = [monitor EXCEPT !.clock = @ + 1]
  /\ UNCHANGED <<documentVars, analysisVars>>
  /\ UNCHANGED <<scanner, enhanced, notification, cache, service, validation>>

(* performanceMonitor.startTimer(name) *)
StartTimer(name, max) ==
  /\ Len(monitor.created) < max
  /\ monitor' = MonitorStarted(monitor, name)
  /\ UNCHANGED <<documentVars, analysisVars>>
  /\ UNCHANGED <<scanner, enhanced, notification, cache, service, validation>>

(* performanceMonitor.endTimer(timer) of a timer startTimer returned *)
EndTimer(timer, heapUsed, cpuUsage) ==
  /\ timer \in 1..Len(monitor.created)
  /\ monitor' = MonitorEnded(monitor, timer, heapUsed, cpuUsage)
  /\ UNCHANGED <<documentVars, analysisVars>>
  /\ UNCHANGED <<scanner, enhanced, notification, cache, service, validation>>

(* the dates-le.extractDates command on the document of the active       *)
(* editor, the safety checks passing; the extraction takes elapsed         *)
(* milliseconds of the clock                                               *)
ExtractCommand(fault, elapsed, opened, heapUsed, cpuUsage, maxTimers, maxClock) ==
  /\ Len(monitor.created) < maxTimers
  /\ monitor.clock + elapsed <= maxClock
  /\ \E r \in {extractDates(content, languageId, fault)},
        m \in {MonitorEnded(
                 [MonitorStarted(monitor, "extract-dates")
                    EXCEPT !.clock = @ + elapsed],
                 Len(monitor.created) + 1, heapUsed, cpuUsage)} :
        /\ promise' = r.promise
        /\ result' = r.result
        /\ invoked' = r.invoked
        /\ thrown' = r.thrown
        /\ monitor' = m
        /\ notification' =
             extractCommandOutcome(r.result, m.returned.metrics, opened)
  /\ UNCHANGED <<content, typed, languageId, matches, deduped>>
  /\ UNCHANGED analysisVars
  /\ UNCHANGED <<scanner, enhanced, cache, service, validation>>

(* the analyze, convert, filter or validate command on the document of     *)
(* the active editor, up to the end of its block on the extraction result  *)
ProgressCommand(command, fault, cancelled) ==
  /\ \E r \in {extractDates(content, languageId, fault)} :
        /\ promise' = r.promise
        /\ result' = r.result
        /\ invoked' = r.invoked
        /\ thrown' = r.thrown
        /\ notification' = progressCommandOutcome(command, r.result, cancelled)
  /\ UNCHANGED <<content, typed, languageId, matches, deduped>>
  /\ UNCHANGED analysisVars
  /\ UNCHANGED <<scanner, enhanced, cache, service, monitor, validation>>

CacheUnchanged ==
  /\ UNCHANGED <<documentVars, analysisVars>>
  /\ UNCHANGED <<scanner, enhanced, notification, service, monitor, validation>>

CreatePerformanceCache(maxSize) ==
  /\ ~cache.made
  /\ cache' = createPerformanceCache(maxSize)
  /\ CacheUnchanged

CacheGet(key, max) ==
  /\ cache.made
  /\ cache.accessCounter < max
  /\ cache' = cacheGet(cache, key)
  /\ CacheUnchanged

CacheSet(key, value, max) ==
  /\ cache.made
  /\ cache.accessCounter < max
  /\ cache' = cacheSet(cache, key, value)
  /\ CacheUnchanged

CacheHas(key) ==
  /\ cache.made
  /\ cache' = cacheHas(cache, key)
  /\ CacheUnchanged

CacheDelete(key) ==
  /\ cache.made
  /\ cache' = cacheDelete(cache, key)
  /\ CacheUnchanged

CacheClear ==
  /\ cache.made
  /\ cache' = cacheClear(cache)
  /\ CacheUnchanged

ServiceUnchanged ==
  /\ UNCHANGED <<documentVars, analysisVars>>
  /\ UNCHANGED <<scanner, enhanced, notification, cache, monitor, validation>>

StartOperation(operation, max) ==
  /\ Len(service.trackers) < max
  /\ service' = serviceStartOperation(service, operation, monitor.clock)
  /\ ServiceUnchanged

OperationEnd(tracker, heapUsed) ==
  /\ tracker \in 1..Len(service.trackers)
  /\ service' = operationEnd(service, tracker, monitor.clock, heapUsed)
  /\ ServiceUnchanged

OperationCancel(tracker) ==
  /\ tracker \in 1..Len(service.trackers)
  /\ service' = operationCancel(service, tracker)
  /\ ServiceUnchanged

ServiceDispose ==
  /\ service' = serviceDispose(service)
  /\ ServiceUnchanged

(* the validate command from the rules the user picked on: validateDates  *)
(* of the extracted dates with the picked rules, in the order of           *)
(* availableRules                                                          *)
ValidateDates(picked, zone, now) ==
  /\ dateValues # <<>>
  /\ \E rules \in {SelectSeq(availableRules,
                             LAMBDA rule : rule.name \in picked)} :
        validation' =
          [done |-> TRUE, rules |-> rules,
           results |-> validateDates(dateValues, rules, zone, now)]
  /\ UNCHANGED <<documentVars, analysisVars>>
  /\ UNCHANGED <<scanner, enhanced, notification, cache, service, monitor>>

----------------------------------------------------------------------------
(* The texts the documents are made of.                                    *)

IsoText ==
  <<"2", "0", "2", "3", "-", "1", "2", "-", "2", "5", "T", "1", "0", ":",
    "3", "0", ":", "0", "0", "Z">>

SimpleText ==
  <<"2", "0", "2", "3", "-", "1", "2", "-", "2", "5">>

OtherSimpleText ==
  <<"2", "0", "2", "4", "-", "0", "1", "-", "0", "1">>

LogText ==
  <<"2", "0", "2", "3", "-", "1", "2", "-", "2", "5", " ",
    "1", "0", ":", "3", "0", ":", "0", "0">>

NewLine ==
  <<"\n">>

Comma ==
  <<",">>

XmlCommentText ==
  <<"<", "!", "-", "-">>

SecondsText ==
  <<"1", "7", "0", "3", "5", "0", "8", "6", "0", "0">>

Zeros ==
  <<"0", "0", "0">>

Nines ==
  <<"9", "9", "9">>

NewDateText ==
  <<"n", "e", "w", " ", "D", "a", "t", "e", "(", "\"", "2", "0", "2", "3",
    "-", "1", "2", "-", "2", "5", "\"", ")">>

TimeTagText ==
  <<"<", "t", "i", "m", "e", " ", "d", "a", "t", "e", "t", "i", "m", "e",
    "=", "\"", "2", "0", "2", "3", "-", "1", "2", "-", "2", "5", "\"", ">">>

RouterTexts == {IsoText, SimpleText, NewLine}

GenericTexts ==
  {IsoText, SimpleText, OtherSimpleText, SecondsText, NewLine, XmlCommentText}

UnixTexts == {SecondsText, Zeros, Nines, SecondsMin, SecondsMax, Comma}

FormatTexts ==
  {IsoText, SimpleText, LogText, NewLine, NewDateText, TimeTagText}

KnownIds ==
  {"json", "yaml", "yml", "csv", "xml", "log", "plaintext", "javascript",
   "typescript", "html"}

RouterIds == KnownIds \cup {"markdown", "binary"}

GenericIds == {"json", "yaml", "csv", "xml"}

UnixIds == {"csv", "html", "typescript"}

FormatIds == {"plaintext", "log", "html", "javascript", "json"}

Positions ==
  {NoPosition, [line |-> 1, column |-> 1], [line |-> 1, column |-> 12],
   [line |-> 2, column |-> 1]}

(* the matches a list handed to the deduplicator is made of *)
MatchPool ==
  {[value |-> v, format |-> f, timestamp |-> DateParse(v), position |-> p,
    context |-> v] :
     v \in {IsoText, SimpleText}, f \in {"iso", "simple"}, p \in Positions}

MaxRouterSegs == 3

MaxGenericSegs == 3

MaxUnixSegs == 3

MaxFormatSegs == 3

MaxMatches == 3

----------------------------------------------------------------------------
(* The specifications.                                                     *)

Type == \E seg \in RouterTexts : TypeSegment(seg, MaxRouterSegs)

Language == \E id \in RouterIds : SetLanguage(id)

Extract == \E fault \in Faults : ExtractDates(fault)

Next == Type \/ Language \/ Extract

Spec == Init /\ [][Next]_vars

TypeGeneric == \E seg \in GenericTexts : TypeSegment(seg, MaxGenericSegs)

LanguageGeneric == \E id \in GenericIds : SetLanguage(id)

NextGeneric == TypeGeneric \/ LanguageGeneric \/ ExtractDates(NoFault)

SpecGeneric == Init /\ [][NextGeneric]_vars

TypeUnix == \E seg \in UnixTexts : TypeSegment(seg, MaxUnixSegs)

LanguageUnix == \E id \in UnixIds : SetLanguage(id)

NextUnix == TypeUnix \/ LanguageUnix \/ ExtractDates(NoFault)

SpecUnix == Init /\ [][NextUnix]_vars

TypeFormat == \E seg \in FormatTexts : TypeSegment(seg, MaxFormatSegs)

LanguageFormat == \E id \in FormatIds : SetLanguage(id)

NextFormat == TypeFormat \/ LanguageFormat \/ ExtractDates(NoFault)

SpecFormat == Init /\ [][NextFormat]_vars

(* a DateValue without position and context *)
DateValueOf(value, format, timestamp) ==
  [value |-> value, format |-> format, timestamp |-> timestamp]

BadDateText ==
  <<"2", "0", "2", "3", "-", "1", "3", "-", "4", "5">>

(* the instant 0 *)
(* the simple date of the epoch: Date.parse gives 0 for it *)
EpochDateText ==
  <<"1", "9", "7", "0", "-", "0", "1", "-", "0", "1">>

EpochText ==
  <<"1", "9", "7", "0", "-", "0", "1", "-", "0", "1", "T", "0", "0", ":",
    "0", "0", ":", "0", "0", "Z">>

(* what the simple matcher makes of a text Date.parse cannot read *)
UnparsedMatch == createDateValue(BadDateText, "simple", 0, 0, BadDateText)

StatisticsPool ==
  {UnparsedMatch,
   DateValueOf(IsoText, "iso", [ms |-> 100]),
   DateValueOf(SimpleText, "simple", [ms |-> 100]),
   DateValueOf(OtherSimpleText, "simple", [ms |-> 201]),
   DateValueOf(LogText, "iso", [ms |-> -300]),
   DateValueOf(EpochText, "iso", [ms |-> 0]),
   DateValueOf(SimpleText, "simple", NoTimestamp),
   DateValueOf(Nines, "custom", TooLarge)}

MaxStatisticsDates == 3

NextStatistics ==
  \/ \E date \in StatisticsPool : AppendDate(date, MaxStatisticsDates)
  \/ \E zone \in Zones : CalculateDateStatistics(zone)

SpecStatistics == Init /\ [][NextStatistics]_vars

AnomalyPool ==
  {UnparsedMatch,
   DateValueOf(IsoText, "iso", [ms |-> 100]),
   DateValueOf(SimpleText, "simple", [ms |-> 100]),
   DateValueOf(LogText, "custom", [ms |-> 900]),
   DateValueOf(EpochText, "iso", [ms |-> 0]),
   DateValueOf(SimpleText, "simple", NoTimestamp),
   DateValueOf(Nines, "custom", TooLarge)}

(* the instants the analysis may be run at *)
Clock == {500}

MaxAnomalyDates == 3

NextAnomalies ==
  \/ \E date \in AnomalyPool : AppendDate(date, MaxAnomalyDates)
  \/ \E now \in Clock : DetectDateAnomalies(now)

SpecAnomalies == Init /\ [][NextAnomalies]_vars

OutlierPool ==
  {DateValueOf(IsoText, "iso", [ms |-> 100]),
   DateValueOf(SimpleText, "simple", [ms |-> 110]),
   DateValueOf(LogText, "custom", [ms |-> 900]),
   DateValueOf(EpochText, "iso", [ms |-> 0])}

MaxOutlierDates == 5

NextOutliers ==
  \/ \E date \in OutlierPool : AppendDate(date, MaxOutlierDates)
  \/ \E now \in Clock : DetectDateAnomalies(now)

SpecOutliers == Init /\ [][NextOutliers]_vars

(* entries some seconds apart around the epoch, in any order *)
PatternPool ==
  {UnparsedMatch,
   DateValueOf(IsoText, "iso", [ms |-> 600000]),
   DateValueOf(SimpleText, "simple", [ms |-> 657000]),
   DateValueOf(OtherSimpleText, "simple", [ms |-> 720000]),
   DateValueOf(LogText, "custom", [ms |-> 783000]),
   DateValueOf(Nines, "custom", [ms |-> -600000]),
   DateValueOf(EpochText, "iso", [ms |-> 0])}

MaxPatternDates == 4

NextPatterns ==
  \/ \E date \in PatternPool : AppendDate(date, MaxPatternDates)
  \/ \E zone \in Zones : DetectDatePatterns(zone)

SpecPatterns == Init /\ [][NextPatterns]_vars

(* entries some hours or days apart, in any order *)
ClusterPool ==
  {UnparsedMatch,
   DateValueOf(IsoText, "iso", [ms |-> MsPerDay]),
   DateValueOf(SimpleText, "simple", [ms |-> 2 * MsPerDay]),
   DateValueOf(OtherSimpleText, "simple", [ms |-> 2 * MsPerDay + 1]),
   DateValueOf(LogText, "custom", [ms |-> 3 * MsPerDay]),
   DateValueOf(EpochText, "iso", [ms |-> 0])}

MaxClusterDates == 4

NextClusters ==
  \/ \E date \in ClusterPool : AppendDate(date, MaxClusterDates)
  \/ ClusterDates

SpecClusters == Init /\ [][NextClusters]_vars

(* entries a week or so apart, in any order *)
GapPool ==
  {UnparsedMatch,
   DateValueOf(IsoText, "iso", [ms |-> 1]),
   DateValueOf(SimpleText, "simple", [ms |-> gapThreshold + 1]),
   DateValueOf(OtherSimpleText, "simple", [ms |-> gapThreshold + 2]),
   DateValueOf(LogText, "custom", [ms |-> 2 * gapThreshold + 3]),
   DateValueOf(EpochText, "iso", [ms |-> 0])}

MaxGapDates == 4

NextGaps ==
  \/ \E date \in GapPool : AppendDate(date, MaxGapDates)
  \/ DetectDateGaps

SpecGaps == Init /\ [][NextGaps]_vars

(* the entry of the scanner for the simple date of the epoch, and entries  *)
(* of the seconds after it                                                 *)
EpochPool ==
  {DateValueOf(EpochDateText, "simple", [ms |-> 0]),
   DateValueOf(IsoText, "iso", [ms |-> 100]),
   DateValueOf(SimpleText, "simple", [ms |-> 110])}

MaxEpochDates == 5

NextEpoch ==
  \/ \E date \in EpochPool : AppendDate(date, MaxEpochDates)
  \/ \E zone \in Zones, now \in Clock : AnalyzeDates(zone, now)

SpecEpoch == Init /\ [][NextEpoch]_vars

ScanTexts ==
  {IsoText, SimpleText \o Comma \o OtherSimpleText,
   SimpleText \o NewLine \o SecondsText, NewLine}

ScanFaults == {NoFault, [raised |-> TRUE, isError |-> TRUE, message |-> "boom"]}

MaxScans == 3

NextScans ==
  \E text \in ScanTexts, fault \in ScanFaults :
     ExtractWithPatterns(text, fault, MaxScans)

SpecScans == Init /\ [][NextScans]_vars

ErrorWords ==
  {FatalText, PermissionText, NetworkText, <<"F", "a", "t", "a", "l">>,
   <<"d", "i", "s", "k">>}

MaxWords == 2

RECURSIVE MessagesOf(_)
(* the messages of at most n words *)
MessagesOf(n) ==
  IF n = 0 THEN {<<>>}
  ELSE MessagesOf(n - 1)
         \cup {m \o (IF m = <<>> THEN <<>> ELSE <<" ">>) \o w :
                 m \in MessagesOf(n - 1), w \in ErrorWords}

Contexts == {NoContext, [text |-> <<"a", ".", "j", "s", "o", "n">>]}

NextErrors ==
  \E message \in MessagesOf(MaxWords), category \in ErrorCategories,
     context \in Contexts, now \in Clock :
     CreateEnhancedError(message, category, context, now)

SpecErrors == Init /\ [][NextErrors]_vars

TimerNames == {"extract-dates", "analyze"}

HeapSizes == {1048576, 2097152}

CpuTimes == {0, 15000}

MaxClock == 3

MaxTimers == 3

NextTimers ==
  \/ Tick(MaxClock)
  \/ \E name \in TimerNames : StartTimer(name, MaxTimers)
  \/ \E timer \in 1..MaxTimers, heapUsed \in HeapSizes, cpuUsage \in CpuTimes :
        EndTimer(timer, heapUsed, cpuUsage)

SpecTimers == Init /\ [][NextTimers]_vars

CommandTexts == {IsoText, NewLine}

CommandIds == {"json", "markdown"}

MaxCommandSegs == 2

MaxCommandTimers == 1

MaxCommandClock == 1

NextCommands ==
  \/ \E seg \in CommandTexts : TypeSegment(seg, MaxCommandSegs)
  \/ \E id \in CommandIds : SetLanguage(id)
  \/ \E fault \in Faults, elapsed \in 0..1, opened \in BOOLEAN :
        ExtractCommand(fault, elapsed, opened, 1048576, 0, MaxCommandTimers,
                       MaxCommandClock)
  \/ \E command \in ProgressCommands, fault \in Faults, cancelled \in BOOLEAN :
        ProgressCommand(command, fault, cancelled)

SpecCommands == Init /\ [][NextCommands]_vars

CacheKeys == {"a", "b", "c"}

CacheValues == {[dates |-> 1], [dates |-> 2], Undefined}

MaxCacheSize == 2

MaxAccess == 4

NextCache ==
  \/ \E maxSize \in 1..MaxCacheSize : CreatePerformanceCache(maxSize)
  \/ \E key \in CacheKeys : CacheGet(key, MaxAccess)
  \/ \E key \in CacheKeys, value \in CacheValues :
        CacheSet(key, value, MaxAccess)
  \/ \E key \in CacheKeys : CacheHas(key)
  \/ \E key \in CacheKeys : CacheDelete(key)
  \/ CacheClear

SpecCache == Init /\ [][NextCache]_vars

OperationNames == {"extract", "analyze"}

MaxOperations == 3

MaxServiceClock == 1

NextService ==
  \/ Tick(MaxServiceClock)
  \/ \E operation \in OperationNames : StartOperation(operation, MaxOperations)
  \/ \E tracker \in 1..MaxOperations, heapUsed \in HeapSizes \cup {0} :
        OperationEnd(tracker, heapUsed)
  \/ \E tracker \in 1..MaxOperations : OperationCancel(tracker)
  \/ ServiceDispose

SpecService == Init /\ [][NextService]_vars

NoZoneIsoText ==
  <<"2", "0", "2", "3", "-", "1", "2", "-", "2", "5", "T", "1", "0", ":",
    "3", "0", ":", "0", "0">>

OffsetIsoText == NoZoneIsoText \o <<"+", "0", "2", ":", "0", "0">>

ValidationPool ==
  {UnparsedMatch,
   DateValueOf(IsoText, "iso", [ms |-> 100]),
   DateValueOf(NoZoneIsoText, "iso", [ms |-> 100]),
   DateValueOf(OffsetIsoText, "iso", [ms |-> 600]),
   DateValueOf(SimpleText, "simple", [ms |-> 110])}

RuleNames == {availableRules[i].name : i \in 1..Len(availableRules)}

MaxValidationDates == 2

NextValidation ==
  \/ \E date \in ValidationPool : AppendDate(date, MaxValidationDates)
  \/ \E picked \in SUBSET RuleNames, zone \in Zones, now \in Clock :
        ValidateDates(picked, zone, now)

SpecValidation == Init /\ [][NextValidation]_vars

NextDedup ==
  \/ \E date \in MatchPool : AppendMatch(date, MaxMatches)
  \/ DeduplicateDates

SpecDedup == Init /\ [][NextDedup]_vars

----------------------------------------------------------------------------
(* Properties.                                                             *)

Succeeded == promise = "fulfilled" /\ result.success

FileType == determineFileType(languageId)

(* the text the generic line scanner is given *)
ScannerInput ==
  IF FileType = "xml" THEN filterXmlComments(content) ELSE content

(* every match of the generic patterns, before the deduplicator *)
RawMatches == ScanLines(Split(ScannerInput), 1, <<>>)

IsIn(d, dates) == \E i \in 1..Len(dates) : dates[i] = d

SameValueAndLine(a, b) ==
  a.value = b.value /\ a.position.line = b.position.line

(* an iso match of the line of d holds the value of d *)
Subsumed(dates, d) ==
  \E j \in 1..Len(dates) :
     /\ dates[j].format = "iso"
     /\ dates[j].position.line = d.position.line
     /\ Includes(dates[j].value, d.value)

(* a later match has the value and the line of the i-th *)
Replaced(dates, i) ==
  \E k \in (i + 1)..Len(dates) : SameValueAndLine(dates[k], dates[i])

(* C1: extractDates always resolves; when the scanner threw, the result is *)
(* a failure with no dates and exactly one parsing/warning/recoverable/    *)
(* skip error, and otherwise a success with no errors.                     *)
ExtractDatesNeverThrows ==
  /\ promise # "rejected"
  /\ promise = "fulfilled" =>
       IF thrown.raised
       THEN /\ result.success = FALSE
            /\ result.dates = <<>>
            /\ Len(result.errors) = 1
            /\ result.errors[1].category = "parsing"
            /\ result.errors[1].severity = "warning"
            /\ result.errors[1].recoverable = TRUE
            /\ result.errors[1].recoveryAction = "skip"
       ELSE result.success = TRUE /\ result.errors = <<>>

ScannerThrewAndFailed ==
  /\ promise = "fulfilled"
  /\ thrown.raised
  /\ invoked # "none"
  /\ ~result.success
  /\ Len(content) > 0

(* C2: for a hint outside the ten known ones the call returns the empty    *)
(* successful result and runs no scanner, whatever the content.            *)
UnknownHintShortCircuits ==
  (promise = "fulfilled" /\ languageId \notin KnownIds) =>
     /\ result = [success |-> TRUE, dates |-> <<>>, errors |-> <<>>]
     /\ invoked = "none"

UnknownHintOnDatedContent ==
  /\ promise = "fulfilled"
  /\ languageId \notin KnownIds
  /\ Includes(content, SimpleText)
  /\ invoked = "none"

(* C3 as stated: a simple match of the generic line scanner is absent from *)
(* the output exactly when an iso match of its line holds its value.       *)
SimpleAbsentIffSubsumed ==
  Succeeded =>
    LET raw == RawMatches
    IN  \A i \in 1..Len(raw) :
           raw[i].format = "simple" =>
             (~IsIn(raw[i], result.dates) <=> Subsumed(raw, raw[i]))

(* C3 amended: a simple match is absent from the output exactly when an    *)
(* iso match of its line holds its value or a later match of the same line *)
(* has the same value (which then stands for both).                        *)
SimpleAbsentIffSubsumedOrReplaced ==
  Succeeded =>
    LET raw == RawMatches
    IN  \A i \in 1..Len(raw) :
           raw[i].format = "simple" =>
             (~IsIn(raw[i], result.dates)
                <=> (Subsumed(raw, raw[i]) \/ Replaced(raw, i)))

SimpleSuppressedAndSimpleKept ==
  /\ Succeeded
  /\ LET raw == RawMatches
     IN  \E i, j \in 1..Len(raw) :
            /\ raw[i].format = "simple" /\ raw[j].format = "simple"
            /\ Subsumed(raw, raw[i]) /\ ~IsIn(raw[i], result.dates)
            /\ ~Subsumed(raw, raw[j]) /\ IsIn(raw[j], result.dates)

(* C4: the output of the generic line scanner holds one entry per (value,  *)
(* line) pair that survives the overlap filter, and that entry is the last *)
(* match of the pair; the same value on two lines gives two entries.       *)
OneEntryPerValueAndLine ==
  Succeeded =>
    LET raw  == RawMatches
        out  == result.dates
        Live(i) == raw[i].format # "simple" \/ ~Subsumed(raw, raw[i])
    IN  /\ \A i, j \in 1..Len(out) :
              i # j => ~SameValueAndLine(out[i], out[j])
        /\ \A i \in 1..Len(out) : IsIn(out[i], raw)
        /\ \A i \in 1..Len(raw) :
              Live(i) => (IsIn(raw[i], out) <=> ~Replaced(raw, i))

RepeatedValueCollapsedToLast ==
  /\ Succeeded
  /\ LET raw == RawMatches
     IN  \E i, j \in 1..Len(raw) :
            /\ i < j
            /\ SameValueAndLine(raw[i], raw[j])
            /\ ~Replaced(raw, j)
            /\ IsIn(raw[j], result.dates)
            /\ ~IsIn(raw[i], result.dates)

(* C5: deduplicateDates is idempotent: applied to its own output it        *)
(* returns that output, entry for entry.                                   *)
DeduplicateDatesIdempotent ==
  deduped.done => deduplicateDates(deduped.dates) = deduped.dates

DedupedShorterList ==
  /\ deduped.done
  /\ Len(deduped.dates) >= 2
  /\ Len(deduped.dates) < Len(matches)

GenericFormats == {"iso", "rfc2822", "unix", "utc", "local", "simple"}

(* C6: for html and javascript/typescript the matches of the generic       *)
(* patterns in the result went through the overlap resolver and            *)
(* deduplicator: no simple entry whose value an iso entry of its line      *)
(* holds, no two entries with the same value and line.                     *)
SpecializedScannersDeduplicate ==
  (Succeeded /\ FileType \in {"html", "javascript"}) =>
    LET out == SelectSeq(result.dates, LAMBDA d : d.format \in GenericFormats)
    IN  /\ \A i \in 1..Len(out) :
              out[i].format = "simple" => ~Subsumed(out, out[i])
        /\ \A i, j \in 1..Len(out) :
              i # j => ~SameValueAndLine(out[i], out[j])

InSecondsRange(v) == NumLess(SecondsMin, v) /\ NumLess(v, SecondsMax)

InMillisecondsRange(v) ==
  NumLess(MillisecondsMin, v) /\ NumLess(v, MillisecondsMax)

Plausible(v) == InSecondsRange(v) \/ InMillisecondsRange(v)

Lines == Split(content)

(* the digit tokens of line k: the matches of the Unix pattern *)
Tokens(k) == ExecAll(UNIX_PATTERN, Lines[k], 0)

(* C7: a digit token gives a unix entry only if its value is strictly      *)
(* inside the seconds range or the milliseconds range (and then it does,   *)
(* once per value and line); a token outside both gives no entry at all.   *)
UnixOnlyInPlausibleRange ==
  Succeeded =>
    /\ \A i \in 1..Len(result.dates) :
          result.dates[i].format = "unix" =>
            Plausible(parseInt(result.dates[i].value))
    /\ \A k \in 1..Len(Lines) :
          LET ms == Tokens(k)
          IN  \A t \in 1..Len(ms) :
                 LET text == Matched(Lines[k], ms[t])
                 IN  IF Plausible(parseInt(text))
                     THEN \E i \in 1..Len(result.dates) :
                             /\ result.dates[i].format = "unix"
                             /\ result.dates[i].value = text
                             /\ result.dates[i].position.line = k
                     ELSE \A i \in 1..Len(result.dates) :
                             ~(/\ result.dates[i].position.line = k
                               /\ result.dates[i].position.column
                                    = ms[t].index + 1)

TokenAcceptedAndTokenRejected ==
  /\ Succeeded
  /\ Len(Lines) = 1
  /\ LET ms == Tokens(1)
     IN  \E t, u \in 1..Len(ms) :
            /\ InSecondsRange(parseInt(Matched(Lines[1], ms[t])))
            /\ \E i \in 1..Len(result.dates) :
                  /\ result.dates[i].format = "unix"
                  /\ result.dates[i].position.column = ms[t].index + 1
            /\ parseInt(Matched(Lines[1], ms[u])) \in {SecondsMin, SecondsMax}
            /\ \A i \in 1..Len(result.dates) :
                  result.dates[i].position.column # ms[u].index + 1

(* C8: every unix entry stores epoch milliseconds: the value times 1000    *)
(* when the value is in the seconds range, the value itself when it is in  *)
(* the milliseconds range, leading zeros or not.                           *)
UnixStoredAsMilliseconds ==
  Succeeded =>
    \A i \in 1..Len(result.dates) :
       result.dates[i].format = "unix" =>
         LET v == parseInt(result.dates[i].value)
         IN  result.dates[i].timestamp.ms =
               IF InSecondsRange(v) THEN Times1000(v) ELSE v

(* the length of the maximal run of digits of line that covers column c *)
DigitRun(line, c) ==
  LET from == CHOOSE a \in 1..c :
                /\ \A j \in a..c : line[j] \in Digits
                /\ a = 1 \/ line[a - 1] \notin Digits
      to   == CHOOSE b \in c..Len(line) :
                /\ \A j \in c..b : line[j] \in Digits
                /\ b = Len(line) \/ line[b + 1] \notin Digits
  IN  to - from + 1

(* C9: a unix entry comes from a maximal run of 10 to 13 digits only, never *)
(* from a shorter or longer run nor from a part of one.                     *)
UnixOnlyFromTenToThirteenDigitRuns ==
  Succeeded =>
    \A i \in 1..Len(result.dates) :
       result.dates[i].format = "unix" =>
         DigitRun(Lines[result.dates[i].position.line],
                  result.dates[i].position.column)
           \in UnixMinDigits..UnixMaxDigits

PatternRank(d) ==
  CASE d.format = "iso" -> 1
    [] d.format = "rfc2822" -> 2
    [] d.format = "unix" -> 3
    [] d.format = "utc" -> 4
    [] d.format = "local" -> 5
    [] d.format = "simple" -> 6
    [] OTHER -> 7

(* C10: for every accepted hint the dates are in line-major discovery      *)
(* order: the line never decreases along the sequence, and within a line   *)
(* the generic patterns come in their order of application, the            *)
(* format-specific matchers last.                                          *)
DatesInLineMajorOrder ==
  (Succeeded /\ languageId \in KnownIds) =>
    \A i, j \in 1..Len(result.dates) :
       i < j =>
         /\ result.dates[i].position.line <= result.dates[j].position.line
         /\ (/\ result.dates[i].position.line = result.dates[j].position.line
             /\ FileType # "log")
              => PatternRank(result.dates[i]) <= PatternRank(result.dates[j])

(* C11: for every accepted hint each entry's value stands in the content   *)
(* the caller passed, on line position.line from column position.column   *)
(* on (both 1-based, the lines being the content split on newline).        *)
ValueAtItsPosition ==
  (Succeeded /\ languageId \in KnownIds) =>
    \A i \in 1..Len(result.dates) :
       LET d == result.dates[i]
       IN  /\ d.position.line \in 1..Len(Lines)
           /\ d.position.column + Len(d.value) - 1
                <= Len(Lines[d.position.line])
           /\ SubSeq(Lines[d.position.line], d.position.column,
                     d.position.column + Len(d.value) - 1) = d.value

(* the text is, as a whole, of one of the six generic shapes *)
GenericShape(text) ==
  \/ Whole(ISO_PATTERN, text)
  \/ Whole(RFC2822_PATTERN, text)
  \/ Whole(UNIX_PATTERN, text)
  \/ Whole(UTC_PATTERN, text)
  \/ Whole(LOCAL_PATTERN, text)
  \/ Whole(SIMPLE_DATE_PATTERN, text)

(* C12: an entry of a format-specific matcher (one that is no match of the *)
(* generic patterns) has the format custom unless its value is of a        *)
(* generic shape.                                                          *)
FormatSpecificEntriesAreCustom ==
  (Succeeded /\ FileType \in {"log", "html", "javascript"}) =>
    \A i \in 1..Len(result.dates) :
       (~IsIn(result.dates[i], RawMatches)
          /\ ~GenericShape(result.dates[i].value))
         => result.dates[i].format = "custom"

(* the timestamp of d is present and is a valid instant *)
Parseable(d) == d.timestamp \notin {NoTimestamp, NaN, TooLarge}

(* the timestamps of the parseable entries, sorted ascending *)
ParseableSorted(ds) ==
  LET kept == SelectSeq(ds, Parseable)
  IN  SortAscending([i \in 1..Len(kept) |-> kept[i].timestamp.ms])

NothingParseable == \A i \in 1..Len(dateValues) : ~Parseable(dateValues[i])

AllNullAndEmpty(st) ==
  /\ st.unique = 0
  /\ st.earliest = Null /\ st.latest = Null /\ st.range = Null
  /\ st.average = Null /\ st.median = Null
  /\ st.formats = <<>> /\ st.timezones = <<>> /\ st.years = <<>>
  /\ st.months = <<>> /\ st.daysOfWeek = <<>> /\ st.hours = <<>>

(* C13 as stated: on an input without a parseable timestamp, empty or not, *)
(* calculateDateStatistics returns total, unique and duplicates 0, the     *)
(* five derived values null and empty histograms.                          *)
StatisticsAllZeroWithoutParseable ==
  (statistics.done /\ NothingParseable) =>
    /\ statistics.value.total = 0
    /\ statistics.value.duplicates = 0
    /\ AllNullAndEmpty(statistics.value)

(* C13 amended: on such an input it returns unique 0, the five derived     *)
(* values null and empty histograms, with total and duplicates both the    *)
(* number of input entries (0 on the empty input).                         *)
StatisticsBlankWithoutParseable ==
  (statistics.done /\ NothingParseable) =>
    /\ statistics.value.total = Len(dateValues)
    /\ statistics.value.duplicates = Len(dateValues)
    /\ AllNullAndEmpty(statistics.value)

UnparsedAndAbsentAnalysed ==
  /\ statistics.done
  /\ NothingParseable
  /\ \E i, j \in 1..Len(dateValues) :
        /\ dateValues[i].timestamp = NaN
        /\ dateValues[j].timestamp = NoTimestamp
  /\ statistics.value.total = 2

(* C14: unique is the number of distinct timestamps of the parseable       *)
(* entries, total the number of entries, duplicates their difference, and  *)
(* 0 <= unique <= total.                                                   *)
UniqueCountsDistinctInstants ==
  statistics.done =>
    LET st == statistics.value
        s  == ParseableSorted(dateValues)
    IN  /\ st.unique = Cardinality({s[i] : i \in 1..Len(s)})
        /\ st.total = Len(dateValues)
        /\ st.duplicates = st.total - st.unique
        /\ st.unique + st.duplicates = st.total
        /\ 0 <= st.unique /\ st.unique <= st.total

(* C15: with n >= 1 parseable timestamps, sorted ascending s, the median   *)
(* is the middle one when n is odd and half the sum of the two middle ones *)
(* when n is even.                                                         *)
MedianOfParseable ==
  statistics.done =>
    LET s == ParseableSorted(dateValues)
        n == Len(s)
    IN  n >= 1 =>
          /\ statistics.value.median # Null
          /\ IF n % 2 = 1
             THEN statistics.value.median.ms = s[((n - 1) \div 2) + 1]
             ELSE 2 * statistics.value.median.ms
                    = s[n \div 2] + s[(n \div 2) + 1]

(* the entries the anomalies of one type are about, in order *)
AnomalyDates(type) ==
  LET of == SelectSeq(anomalies.value, LAMBDA a : a.type = type)
  IN  [i \in 1..Len(of) |-> of[i].date]

SeverityOf(type, severity) ==
  \A i \in 1..Len(anomalies.value) :
     anomalies.value[i].type = type
       => anomalies.value[i].severity = severity

(* a timestamp that is present and is no valid instant *)
PresentNotAnInstant(d) == d.timestamp \in {NaN, TooLarge}

(* C16: there is one invalid anomaly, of severity high, for every entry    *)
(* whose timestamp is present and is no valid instant (NaN, what           *)
(* Date.parse gives on failure), and none for any other entry.             *)
InvalidForEveryUnparsedEntry ==
  anomalies.done =>
    /\ AnomalyDates("invalid") = SelectSeq(dateValues, PresentNotAnInstant)
    /\ SeverityOf("invalid", "high")

(* the parseable entries outside the bounds of C17, in order; the bounds   *)
(* are doubled, 1.5 * IQR having a half                                    *)
OutsideQuartileBounds(ds) ==
  LET s   == ParseableSorted(ds)
      n   == Len(s)
      q1  == s[(n \div 4) + 1]
      q3  == s[((3 * n) \div 4) + 1]
  IN  SelectSeq(SelectSeq(ds, Parseable),
                LAMBDA d :
                  \/ 2 * d.timestamp.ms < 2 * q1 - 3 * (q3 - q1)
                  \/ 2 * d.timestamp.ms > 2 * q3 + 3 * (q3 - q1))

(* C17: no outlier anomaly with fewer than 5 parseable entries; with 5 or  *)
(* more, one outlier anomaly of severity low for each parseable entry      *)
(* below Q1 - 1.5 IQR or above Q3 + 1.5 IQR, Q1 and Q3 being the sorted    *)
(* timestamps at floor(n * 0.25) and floor(n * 0.75), and none for the     *)
(* others.                                                                 *)
OutliersByQuartiles ==
  anomalies.done =>
    /\ AnomalyDates("outlier")
         = IF Len(SelectSeq(dateValues, Parseable)) < 5
           THEN <<>>
           ELSE OutsideQuartileBounds(dateValues)
    /\ SeverityOf("outlier", "low")

(* the number of entries of a format and the place of its first entry *)
EntriesOf(format) ==
  Cardinality({i \in 1..Len(dateValues) : dateValues[i].format = format})

FirstOf(format) ==
  CHOOSE i \in 1..Len(dateValues) :
     /\ dateValues[i].format = format
     /\ \A j \in 1..(i - 1) : dateValues[j].format # format

FormatsSeen == {dateValues[i].format : i \in 1..Len(dateValues)}

(* the format with the most entries, the one met first winning a tie *)
MostFrequentFirstMet ==
  CHOOSE f \in FormatsSeen :
     \A g \in FormatsSeen :
        \/ EntriesOf(g) < EntriesOf(f)
        \/ EntriesOf(g) = EntriesOf(f) /\ FirstOf(f) <= FirstOf(g)

(* C18: the dominant format is the one with the most entries, the one met  *)
(* first winning a tie; there is one format-inconsistent anomaly of        *)
(* severity low for each entry of another format, total minus the size of  *)
(* the dominant group in all, and none when all entries share one format.  *)
InconsistentAgainstDominant ==
  anomalies.done =>
    /\ SeverityOf("format-inconsistent", "low")
    /\ IF Cardinality(FormatsSeen) <= 1
       THEN AnomalyDates("format-inconsistent") = <<>>
       ELSE /\ AnomalyDates("format-inconsistent")
                 = SelectSeq(dateValues,
                             LAMBDA d : d.format # MostFrequentFirstMet)
            /\ Len(AnomalyDates("format-inconsistent"))
                 = Len(dateValues) - EntriesOf(MostFrequentFirstMet)
            /\ \A i \in 1..Len(anomalies.value) :
                  anomalies.value[i].type = "format-inconsistent"
                    => anomalies.value[i].suggestion.format
                         = MostFrequentFirstMet

(* a tie of two formats decided for the one met first, the later met       *)
(* format flagged                                                          *)
TieDecidedForFirstMet ==
  /\ anomalies.done
  /\ \E f, g \in FormatsSeen :
        /\ f # g
        /\ EntriesOf(f) = EntriesOf(g)
        /\ \A h \in FormatsSeen : EntriesOf(h) <= EntriesOf(f)
        /\ FirstOf(f) < FirstOf(g)
        /\ \E i \in 1..Len(AnomalyDates("format-inconsistent")) :
              AnomalyDates("format-inconsistent")[i].format = g

(* the patterns of one type *)
PatternsOf(type) == SelectSeq(patterns.value, LAMBDA p : p.type = type)

(* C19: no pattern with fewer than 3 parseable entries; otherwise at most  *)
(* one pattern of each of the types frequency, seasonal and trend; every   *)
(* pattern has a confidence in [0, 1] and at most 3 examples.              *)
PatternsWellFormed ==
  patterns.done =>
    /\ Len(SelectSeq(dateValues, Parseable)) < 3 => patterns.value = <<>>
    /\ \A type \in {"frequency", "seasonal", "trend"} :
          Len(PatternsOf(type)) <= 1
    /\ \A i \in 1..Len(patterns.value) :
          LET p == patterns.value[i]
          IN  /\ p.type \in {"frequency", "seasonal", "trend"}
              /\ p.confidence.den > 0
              /\ 0 <= p.confidence.num
              /\ p.confidence.num <= p.confidence.den
              /\ Len(p.examples) <= 3

(* four parseable entries with a pattern of each type, three examples each *)
(* and a trend whose normalized slope is above 1                           *)
ThreePatternsSteepTrend ==
  /\ patterns.done
  /\ Len(SelectSeq(dateValues, Parseable)) = 4
  /\ Len(PatternsOf("frequency")) = 1
  /\ Len(PatternsOf("seasonal")) = 1
  /\ Len(PatternsOf("trend")) = 1
  /\ \A i \in 1..Len(patterns.value) : Len(patterns.value[i].examples) = 3
  /\ PatternsOf("trend")[1].confidence = Ratio(1, 1)
  /\ PatternsOf("frequency")[1].confidence.num
       < PatternsOf("frequency")[1].confidence.den

(* an interval within 10% relative tolerance of a representative *)
WithinTenPercentOf(interval, key) ==
  10 * Abs(interval - key) <= Abs(key)

(* C20: when a frequency pattern is reported, every member of a group of   *)
(* the consecutive deltas (in input order) is within 10% relative          *)
(* tolerance of the representative of its group, the reported interval is  *)
(* the representative of the largest group, and the confidence is the size *)
(* of that group over the number of deltas.                                *)
FrequencyConfidenceIsGroupShare ==
  (patterns.done /\ Len(PatternsOf("frequency")) > 0) =>
    LET kept      == SelectSeq(dateValues, Parseable)
        intervals == calculateIntervals([i \in 1..Len(kept) |->
                                           kept[i].timestamp.ms])
        groups    == GroupIntervals(intervals, <<>>)
        largest   == groups[CHOOSE k \in 1..Len(groups) :
                              /\ \A m \in 1..Len(groups) :
                                    Len(groups[m].members)
                                      <= Len(groups[k].members)
                              /\ \A m \in 1..(k - 1) :
                                    Len(groups[m].members)
                                      < Len(groups[k].members)]
        p         == PatternsOf("frequency")[1]
    IN  /\ \A k \in 1..Len(groups) :
              \A m \in 1..Len(groups[k].members) :
                 WithinTenPercentOf(groups[k].members[m], groups[k].key)
        /\ p.description.interval = formatInterval(largest.key)
        /\ p.confidence.num * Len(intervals)
             = Len(largest.members) * p.confidence.den

(* how many times the entry d is a member of a cluster *)
TimesClustered(d) ==
  Cardinality({ki \in UNION {{<<k, i>> :
                                i \in 1..Len(clusters.value[k].dates)} :
                             k \in 1..Len(clusters.value)} :
                 clusters.value[ki[1]].dates[ki[2]] = d})

(* the members of the clusters before the k-th *)
TakenBefore(k) ==
  UNION {{clusters.value[j].dates[i] :
            i \in 1..Len(clusters.value[j].dates)} : j \in 1..(k - 1)}

(* C21: every parseable entry is a member of exactly one cluster and no    *)
(* unparseable entry is a member of any; every member of a cluster is      *)
(* within 24 hours of its first member, and that is the earliest entry in  *)
(* input order not taken by an earlier cluster.                            *)
ClustersPartitionParseable ==
  clusters.done =>
    /\ \A n \in 1..Len(dateValues) :
          TimesClustered(dateValues[n])
            = IF Parseable(dateValues[n])
              THEN Cardinality({m \in 1..Len(dateValues) :
                                  dateValues[m] = dateValues[n]})
              ELSE 0
    /\ \A k \in 1..Len(clusters.value) :
          LET members == clusters.value[k].dates
              left    == SelectSeq(dateValues,
                                   LAMBDA d : /\ Parseable(d)
                                              /\ d \notin TakenBefore(k))
          IN  /\ Len(members) >= 1
              /\ left # <<>>
              /\ members[1] = left[1]
              /\ \A i \in 1..Len(members) :
                    Abs(members[i].timestamp.ms - members[1].timestamp.ms)
                      <= 24 * 60 * 60 * 1000

(* the gaps C22 expects between the neighbours of a sorted list *)
DistantNeighbours(s) ==
  LET at == SelectSeq([i \in 1..(Len(s) - 1) |-> i],
                      LAMBDA i : s[i + 1] - s[i] > 7 * 24 * 60 * 60 * 1000)
  IN  [k \in 1..Len(at) |->
         [start |-> [ms |-> s[at[k]]], end |-> [ms |-> s[at[k] + 1]],
          duration |-> s[at[k] + 1] - s[at[k]]]]

(* C22: there is one gap, in chronological order, for each pair of         *)
(* neighbours of the ascending parseable timestamps more than 7 days       *)
(* apart, with start, end and duration = end - start, none for a pair 7    *)
(* days or less apart, whatever the order of the input.                    *)
GapsBetweenDistantNeighbours ==
  gaps.done =>
    [k \in 1..Len(gaps.value) |->
       [start |-> gaps.value[k].start, end |-> gaps.value[k].end,
        duration |-> gaps.value[k].duration]]
      = DistantNeighbours(ParseableSorted(dateValues))

(* C27: an entry whose timestamp is 0 is counted among the parseable dates *)
(* by the five analysis functions: the statistics count its instant, the   *)
(* quartiles of the outliers, the examples and the total of the patterns,  *)
(* the clusters and the gaps are those of all the parseable entries.       *)
EpochCountedAsParseable ==
  ( /\ statistics.done /\ anomalies.done /\ patterns.done
    /\ clusters.done /\ gaps.done
    /\ \E n \in 1..Len(dateValues) : dateValues[n].timestamp = [ms |-> 0] )
  =>
    LET kept == SelectSeq(dateValues, Parseable)
        s    == ParseableSorted(dateValues)
    IN  /\ statistics.value.unique = Cardinality({s[i] : i \in 1..Len(s)})
        /\ AnomalyDates("outlier")
             = IF Len(kept) < 5 THEN <<>>
               ELSE OutsideQuartileBounds(dateValues)
        /\ \A i \in 1..Len(patterns.value) :
              /\ patterns.value[i].type \in {"frequency", "trend"}
                   => patterns.value[i].examples = Examples(kept)
              /\ patterns.value[i].type = "seasonal"
                   => patterns.value[i].confidence.den = Len(kept)
        /\ \A n \in 1..Len(dateValues) : TimesClustered(dateValues[n]) >= 1
        /\ [k \in 1..Len(gaps.value) |->
              [start |-> gaps.value[k].start, end |-> gaps.value[k].end,
               duration |-> gaps.value[k].duration]]
             = DistantNeighbours(s)

RecoverableFromCategoryAndMessage ==
  enhanced.created =>
    /\ enhanced.category = "safety" => ~enhanced.recoverable
    /\ enhanced.category = "operational" =>
         (enhanced.recoverable <=> ~Includes(enhanced.message, FatalText))
    /\ enhanced.category = "file-system" =>
         (enhanced.recoverable
            <=> \/ Includes(enhanced.message, PermissionText)
                \/ Includes(enhanced.message, NetworkText))
    /\ enhanced.category \in {"parse", "validation", "configuration"} =>
         enhanced.recoverable

(* a file-system error recoverable by 'network' alone, its message naming  *)
(* 'fatal' as well                                                         *)
RecoverableNetworkError ==
  /\ enhanced.created
  /\ enhanced.category = "file-system"
  /\ Includes(enhanced.message, NetworkText)
  /\ Includes(enhanced.message, FatalText)
  /\ ~Includes(enhanced.message, PermissionText)
  /\ enhanced.recoverable

(* C29: the metrics endTimer(t) returns for a timer t of startTimer(name)  *)
(* have startTime equal to the clock at the startTimer call and duration   *)
(* equal to the clock time between the startTimer and the endTimer call.   *)
MetricsMeasureFromStartTimer ==
  monitor.returned.timer # 0 =>
    LET started == monitor.created[monitor.returned.timer].startedAt
        metrics == monitor.returned.metrics
    IN  /\ metrics.startTime = started
        /\ metrics.duration = metrics.endTime - started

NoDatesMessages ==
  {"No dates found in the current document"}
    \cup {"No dates found to " \o command : command \in ProgressCommands}

(* C25: what a command reports for a failed ExtractionResult is an error   *)
(* and never the informational no dates found outcome, which is used only  *)
(* for a successful extraction with zero dates.                            *)
FailedExtractionReportedAsError ==
  notification.kind # "none" =>
    /\ ~notification.extraction.success => notification.kind = "error"
    /\ notification.message \in NoDatesMessages =>
         /\ notification.kind = "info"
         /\ notification.extraction.success
         /\ notification.extraction.dates = <<>>

(* C26: the size of the cache never exceeds maxSize, the cache and its    *)
(* access-order record hold the same keys, and an entry is evicted only    *)
(* when set inserts a key that is not yet present while the cache is       *)
(* full, the evicted entry being the least recently accessed one.          *)
CacheBoundedWithLruEviction ==
  cache.made =>
    /\ Len(cache.cache) <= cache.maxSize
    /\ MapKeys(cache.cache) = MapKeys(cache.accessOrder)
    /\ cache.last.evicted # {} =>
         /\ cache.last.op = "set"
         /\ ~cache.last.present
         /\ cache.last.full
         /\ cache.last.evicted = cache.last.leastRecent

(* C28: after dispose() no operation started through the service is      *)
(* active any more, startOperation throws, and end() throws on an          *)
(* operation that was already ended or cancelled.                          *)
DisposedServiceHasNoActiveOperation ==
  /\ service.disposed =>
       \A tracker \in 1..Len(service.trackers) : ~isActive(service, tracker)
  /\ service.last.op = "startOperation" /\ service.last.disposed =>
       service.last.threw
  /\ service.last.op = "end" /\ service.last.ended => service.last.threw

(* the value ends with Z or with an offset of the form +HH:MM or -HH:MM *)
CarriesZoneDesignator(value) ==
  \/ Len(value) >= 1 /\ value[Len(value)] = "Z"
  \/ /\ Len(value) >= 6
     /\ value[Len(value) - 5] \in {"+", "-"}
     /\ value[Len(value) - 4] \in Digits
     /\ value[Len(value) - 3] \in Digits
     /\ value[Len(value) - 2] = ":"
     /\ value[Len(value) - 1] \in Digits
     /\ value[Len(value)] \in Digits

FailedRules(r) == {r.failures[i].rule : i \in 1..Len(r.failures)}

(* C30: the Timezone Consistency rule fails for every iso value without a  *)
(* timezone designator and passes for every iso value with one;            *)
(* validateDates marks a date as passed exactly when no selected rule      *)
(* fails for it.                                                           *)
TimezoneRuleFailsWithoutDesignator ==
  validation.done =>
    \A i \in 1..Len(validation.results) :
       /\ validation.results[i].passed
            <=> validation.results[i].failures = <<>>
       /\ (/\ validation.results[i].date.format = "iso"
           /\ \E k \in 1..Len(validation.rules) :
                 validation.rules[k].name = "Timezone Consistency")
          => ("Timezone Consistency" \in FailedRules(validation.results[i])
                <=> ~CarriesZoneDesignator(validation.results[i].date.value))

====
